---- MODULE Spec2Model ----
(***************************************************************************)
(* Token-usage rate limiter with reservations                              *)
(* (packages/eventhandlers/eventhandlers/token_meter.py) and the Lambda    *)
(* handler that drives it (chatbot_handler.py).                            *)
(*                                                                         *)
(* Time is counted in seconds since 2025-01-01 00:00:00 (local time, the   *)
(* clock datetime.datetime.now() reads).  The DynamoDB table is a set of   *)
(* items keyed by (user_id, period_id); a period_id is the sequence of the *)
(* ':'-separated fields of the sort-key string, so that begins_with and    *)
(* BETWEEN are prefix and lexicographic comparisons of those fields.       *)
(***************************************************************************)
EXTENDS Integers, Sequences, FiniteSets, TLC

\* ------------------------------------------------------------------ bounds
\* Number of concurrent Lambda invocations.
NumProcs == 2
\* Largest number of entries of event["events"] in one invocation.
MaxEvents == 1
\* Number of times the clock advances.
MaxTicks == 1

\* The clock advances by 11 min 7 s: over a 10-minute bucket and over a
\* reservation's TTL in one step.
TickSteps == {667}
\* 2025-01-31 23:40:30: twenty minutes before the day (and month) change.
StartTime == (30 * 24 * 60 + 23 * 60 + 40) * 60 + 30

MaxStep == CHOOSE d \in TickSteps : \A e \in TickSteps : e <= d

Procs == 1..NumProcs
\* (inputTokens, outputTokens) a model stream's metadata event can report.
Amounts == {<<5000, 10000>>}
\* Usage recorded by the requests handled before the modelled invocations.
PriorAmounts == {<<0, 0>>, <<100, 10000>>, <<100, 15000>>}

\* ------------------------------------------------------- program constants
DEFAULT_DAILY_INPUT_LIMIT == 10000
DEFAULT_DAILY_OUTPUT_LIMIT == 20000
DEFAULT_MONTHLY_INPUT_LIMIT == 100000
DEFAULT_MONTHLY_OUTPUT_LIMIT == 200000
DEFAULT_RESERVATION_TTL_MINUTES == 10

VARIABLES
    now,            \* the wall clock, seconds
    scenario,       \* what the environment does in this run (fixed by Init)
    env,            \* os.environ: the configured limits
    store,          \* the DynamoDB table: a set of items
    ledger,         \* per bucket, the sum of the increments update_item acknowledged
    pc,             \* each invocation's position in lambda_handler
    sub,            \* each invocation's authenticated principal
    events,         \* number of entries of event["events"] not yet processed
    admission,      \* result of is_limit_exceeded_with_reservation (usage_data included)
    reservation_id, \* lambda_handler's reservation_id
    tracker,        \* the MessageTracker of the message being processed
    outcome,        \* what the invocation reported to the client
    removes         \* number of remove_reservation calls the invocation issued

vars == <<now, scenario, env, store, ledger, pc, sub, events, admission,
          reservation_id, tracker, outcome, removes>>

\* ---------------------------------------------------------------- calendar
DaySeconds == 24 * 60 * 60
\* Days of the months of 2025 and of January 2026.
MonthLengths == <<31, 28, 31, 30, 31, 30, 31, 31, 30, 31, 30, 31, 31>>

RECURSIVE MonthStartDay(_)
\* Day index of the first day of month m (1 = January 2025).
MonthStartDay(m) == IF m = 1 THEN 0 ELSE MonthStartDay(m - 1) + MonthLengths[m - 1]

DayIndex(t) == t \div DaySeconds
TimeOfDay(t) == t % DaySeconds
\* strftime('%Y-%m'): the month t lies in.
MonthIndex(t) ==
    CHOOSE m \in 1..Len(MonthLengths) :
        /\ MonthStartDay(m) <= DayIndex(t)
        /\ DayIndex(t) < MonthStartDay(m) + MonthLengths[m]
\* strftime('%Y-%m-%d:%H:%M'): the minute t lies in (seconds dropped).
MinuteStamp(t) == t \div 60
\* strftime('%Y-%m-%d')
DateStr(t) == DayIndex(t)

next_month_delta(dt) ==
    LET day28 == (MonthStartDay(MonthIndex(dt)) + 27) * DaySeconds + TimeOfDay(dt)
        next_month == day28 + 4 * DaySeconds
        first == MonthStartDay(MonthIndex(next_month)) * DaySeconds + TimeOfDay(dt)
    IN  first - dt

\* ------------------------------------------------------- period configurations
\* query_window 0 stands for None (both are falsy in `if query_window:`).
create_ten_minute_period ==
    [name |-> "10min", description |-> "daily", prefix |-> "10min",
     aggregate |-> TRUE, query_window |-> DaySeconds,
     input_limit |-> env.DAILY_INPUT_LIMIT,
     output_limit |-> env.DAILY_OUTPUT_LIMIT]

create_monthly_period ==
    [name |-> "monthly", description |-> "monthly", prefix |-> "monthly",
     aggregate |-> FALSE, query_window |-> 0,
     input_limit |-> env.MONTHLY_INPUT_LIMIT,
     output_limit |-> env.MONTHLY_OUTPUT_LIMIT]

\* TokenLimiter.__init__: the default meters, in list order.
Meters == <<create_ten_minute_period, create_monthly_period>>

\* period_config["id_format"](dt)
IdFormat(cfg, dt) ==
    IF cfg.name = "10min" THEN <<"10min", MinuteStamp(dt)>>
    ELSE <<"monthly", MonthIndex(dt)>>

\* period_config["round_time"](dt)
RoundTime(cfg, dt) ==
    IF cfg.name = "10min" THEN (dt \div 600) * 600
    ELSE MonthStartDay(MonthIndex(dt)) * DaySeconds

\* period_config["ttl_delta"], called when callable
TtlDelta(cfg, dt) ==
    IF cfg.name = "10min" THEN DaySeconds ELSE next_month_delta(dt)

\* ------------------------------------------------------------ the table
\* Order of the first field of a sort key, as the strings compare.
PrefixRank(s) ==
    CASE s = "10min" -> 1
      [] s = "hourly" -> 2
      [] s = "monthly" -> 3
      [] s = "reservation" -> 4

\* The fields of a sort key after its name fields.
KeyNumbers(k) == IF k[1] = "reservation" THEN <<k[3], k[4]>> ELSE <<k[2]>>

RECURSIVE NumbersLE(_, _)
NumbersLE(a, b) ==
    IF a = <<>> THEN TRUE
    ELSE IF b = <<>> THEN FALSE
    ELSE IF Head(a) # Head(b) THEN Head(a) < Head(b)
    ELSE NumbersLE(Tail(a), Tail(b))

\* period_id a <= period_id b, as DynamoDB compares the key strings.
KeyLE(a, b) ==
    IF a[1] # b[1] THEN PrefixRank(a[1]) < PrefixRank(b[1])
    ELSE NumbersLE(KeyNumbers(a), KeyNumbers(b))

\* begins_with(period_id, prefix), the prefix ending at a ':'.
BeginsWith(k, prefix) ==
    /\ Len(prefix) <= Len(k)
    /\ SubSeq(k, 1, Len(prefix)) = prefix

\* query(... period_id BETWEEN :start AND :end)
QueryBetween(st, uid, lo, hi) ==
    {it \in st : it.user_id = uid /\ KeyLE(lo, it.period_id) /\ KeyLE(it.period_id, hi)}

\* query(... begins_with(period_id, :prefix))
QueryBeginsWith(st, uid, prefix) ==
    {it \in st : it.user_id = uid /\ BeginsWith(it.period_id, prefix)}

\* get_item(Key = (user_id, period_id)): the item, if any
GetItem(st, uid, pid) == {it \in st : it.user_id = uid /\ it.period_id = pid}

\* put_item: the new item replaces one with the same key
PutItem(st, item) ==
    (st \ GetItem(st, item.user_id, item.period_id)) \cup {item}

\* delete_item: no condition; deleting a missing key changes nothing
DeleteItem(st, uid, pid) == st \ GetItem(st, uid, pid)

\* An update_item that puts a fresh item holding the increments.
UpdateItemPut(st, uid, pid, i, o, ts, ttl) ==
    PutItem(st, [user_id |-> uid, period_id |-> pid, input_tokens |-> i,
                 output_tokens |-> o, timestamp |-> ts, ttl |-> ttl])

\* An update_item that SETs the counters to the increments instead of ADDing.
UpdateItemOverwrite(st, uid, pid, i, o, ts, ttl) ==
    LET old == GetItem(st, uid, pid)
        new == IF old = {}
               THEN [user_id |-> uid, period_id |-> pid, input_tokens |-> i,
                     output_tokens |-> o, timestamp |-> ts, ttl |-> ttl]
               ELSE LET it == CHOOSE x \in old : TRUE
                    IN  [it EXCEPT !.input_tokens = i, !.output_tokens = o,
                                   !.ttl = ttl]
    IN  (st \ old) \cup {new}

\* update_item with "ADD input_tokens :i, output_tokens :o
\*                   SET #ts = if_not_exists(#ts, :ts), #ttl = :ttl"
UpdateItem(st, uid, pid, i, o, ts, ttl) ==
    LET old == GetItem(st, uid, pid)
        new == IF old = {}
               THEN [user_id |-> uid, period_id |-> pid, input_tokens |-> i,
                     output_tokens |-> o, timestamp |-> ts, ttl |-> ttl]
               ELSE LET it == CHOOSE x \in old : TRUE
                    IN  [it EXCEPT !.input_tokens = @ + i, !.output_tokens = @ + o,
                                   !.ttl = ttl]
    IN  (st \ old) \cup {new}

RECURSIVE SumField(_, _)
SumField(items, f) ==
    IF items = {} THEN 0
    ELSE LET it == CHOOSE x \in items : TRUE
         IN  it[f] + SumField(items \ {it}, f)

\* ------------------------------------------------------------ TokenMeter
ZeroUsage == [input_tokens |-> 0, output_tokens |-> 0]

_sum_period_usage(items) ==
    [input_tokens |-> SumField(items, "input_tokens"),
     output_tokens |-> SumField(items, "output_tokens")]

\* A _get_usage that sums every bucket of the prefix, whatever its time.
_get_usageWholePrefix(cfg, st, uid, t, ok) ==
    IF cfg.aggregate
    THEN IF ok
         THEN _sum_period_usage(QueryBeginsWith(st, uid, <<cfg.prefix>>))
         ELSE ZeroUsage
    ELSE IF ok
         THEN _sum_period_usage(GetItem(st, uid, IdFormat(cfg, t)))
         ELSE ZeroUsage

\* A _get_usage whose except branch answers with what the table holds.
_get_usageUnguarded(cfg, st, uid, t, ok) ==
    IF cfg.aggregate
    THEN IF cfg.query_window # 0
         THEN _sum_period_usage(QueryBetween(st, uid,
                   <<cfg.prefix, MinuteStamp(t - cfg.query_window)>>,
                   <<cfg.prefix, MinuteStamp(t)>>))
         ELSE _sum_period_usage(QueryBeginsWith(st, uid, <<cfg.prefix>>))
    ELSE _sum_period_usage(GetItem(st, uid, IdFormat(cfg, t)))

\* The keys TokenMeter.__init__ requires in period_config (lines 133-143).
required_keys ==
    {"name", "description", "id_format", "round_time", "ttl_delta",
     "input_limit", "output_limit", "prefix", "aggregate"}

\* A constructor that looks only for the keys it reads itself.
TokenMeterInitLenient(keys) ==
    IF {"name", "description"} \subseteq keys THEN "meter" ELSE "ValueError"

\* TokenMeter.__init__ on a period_config with the given keys: the meter, or
\* the ValueError raised for the first missing key (lines 144-146).
TokenMeterInit(keys) ==
    IF required_keys \subseteq keys THEN "meter" ELSE "ValueError"

\* TokenMeter._get_usage at time t; ok = FALSE: the store call raises.
_get_usage(cfg, st, uid, t, ok) ==
    IF cfg.aggregate
    THEN IF cfg.query_window # 0
         THEN IF ok
              THEN _sum_period_usage(QueryBetween(st, uid,
                        <<cfg.prefix, MinuteStamp(t - cfg.query_window)>>,
                        <<cfg.prefix, MinuteStamp(t)>>))
              ELSE ZeroUsage
         ELSE IF ok
              THEN _sum_period_usage(QueryBeginsWith(st, uid, <<cfg.prefix>>))
              ELSE ZeroUsage
    ELSE IF ok
         THEN _sum_period_usage(GetItem(st, uid, IdFormat(cfg, t)))
         ELSE ZeroUsage

\* A meter that is exceeded only above its limits.
MeterIsLimitExceededStrict(cfg, usage) ==
    IF usage.input_tokens > cfg.input_limit
    THEN [is_exceeded |-> TRUE, token_type |-> "input", usage |-> usage]
    ELSE IF usage.output_tokens > cfg.output_limit
    THEN [is_exceeded |-> TRUE, token_type |-> "output", usage |-> usage]
    ELSE [is_exceeded |-> FALSE, token_type |-> "none", usage |-> usage]

\* A meter that tests the output limit before the input limit.
MeterIsLimitExceededOutputFirst(cfg, usage) ==
    IF usage.output_tokens >= cfg.output_limit
    THEN [is_exceeded |-> TRUE, token_type |-> "output", usage |-> usage]
    ELSE IF usage.input_tokens >= cfg.input_limit
    THEN [is_exceeded |-> TRUE, token_type |-> "input", usage |-> usage]
    ELSE [is_exceeded |-> FALSE, token_type |-> "none", usage |-> usage]

\* TokenMeter.is_limit_exceeded, given the usage _get_usage returned
MeterIsLimitExceeded(cfg, usage) ==
    IF usage.input_tokens >= cfg.input_limit
    THEN [is_exceeded |-> TRUE, token_type |-> "input", usage |-> usage]
    ELSE IF usage.output_tokens >= cfg.output_limit
    THEN [is_exceeded |-> TRUE, token_type |-> "output", usage |-> usage]
    ELSE [is_exceeded |-> FALSE, token_type |-> "none", usage |-> usage]

\* A record that rounds the time up to the start of the next period.
MeterUpdateUsageRoundedUp(cfg, st, uid, t, input_tokens, output_tokens) ==
    UpdateItem(st, uid,
               IdFormat(cfg, IF cfg.name = "10min" THEN RoundTime(cfg, t) + 600
                             ELSE t + next_month_delta(t)),
               input_tokens, output_tokens, t, t + TtlDelta(cfg, t))

\* TokenMeter.update_usage's store call at time t
MeterUpdateUsage(cfg, st, uid, t, input_tokens, output_tokens) ==
    UpdateItem(st, uid, IdFormat(cfg, RoundTime(cfg, t)),
               input_tokens, output_tokens, t, t + TtlDelta(cfg, t))

\* ------------------------------------------------------------ TokenLimiter
Max(a, b) == IF a >= b THEN a ELSE b

InitialTotalUsage ==
    [input_tokens |-> 0, output_tokens |-> 0,
     monthly_input_tokens |-> 0, monthly_output_tokens |-> 0,
     daily_input_tokens |-> 0, daily_output_tokens |-> 0]

\* One pass of the loop body of TokenLimiter.is_limit_exceeded for a meter.
MergeUsage(total, cfg, usage) ==
    LET named ==
            IF cfg.name = "monthly"
            THEN [total EXCEPT !.monthly_input_tokens = usage.input_tokens,
                               !.monthly_output_tokens = usage.output_tokens]
            ELSE IF cfg.name = "10min"
            THEN [total EXCEPT !.daily_input_tokens = usage.input_tokens,
                               !.daily_output_tokens = usage.output_tokens]
            ELSE total
    IN  [named EXCEPT !.input_tokens = Max(@, usage.input_tokens),
                      !.output_tokens = Max(@, usage.output_tokens)]

RECURSIVE LimiterLoopAll(_, _, _, _, _, _, _)
\* A loop that reads every meter and reports the last one exceeded.
LimiterLoopAll(i, total, st, uid, t, oks, found) ==
    IF i > Len(Meters)
    THEN [found EXCEPT !.usage_data = total]
    ELSE LET cfg == Meters[i]
             r == MeterIsLimitExceeded(cfg, _get_usage(cfg, st, uid, t, oks[i]))
             merged == MergeUsage(total, cfg, r.usage)
         IN  LimiterLoopAll(i + 1, merged, st, uid, t, oks,
                 IF r.is_exceeded
                 THEN [is_exceeded |-> TRUE, token_type |-> r.token_type,
                       period |-> cfg.description, usage_data |-> merged]
                 ELSE found)

\* A limiter that goes through all its meters.
is_limit_exceededAll(st, uid, t, oks) ==
    LimiterLoopAll(1, InitialTotalUsage, st, uid, t, oks,
        [is_exceeded |-> FALSE, token_type |-> "none", period |-> "none",
         usage_data |-> InitialTotalUsage])

RECURSIVE LimiterLoop(_, _, _, _, _, _)
\* The loop of TokenLimiter.is_limit_exceeded from meter i on; oks[i] tells
\* whether meter i's store read succeeds.
LimiterLoop(i, total, st, uid, t, oks) ==
    IF i > Len(Meters)
    THEN [is_exceeded |-> FALSE, token_type |-> "none", period |-> "none",
          usage_data |-> total]
    ELSE LET cfg == Meters[i]
             r == MeterIsLimitExceeded(cfg, _get_usage(cfg, st, uid, t, oks[i]))
             merged == MergeUsage(total, cfg, r.usage)
         IN  IF r.is_exceeded
             THEN [is_exceeded |-> TRUE, token_type |-> r.token_type,
                   period |-> cfg.description, usage_data |-> merged]
             ELSE LimiterLoop(i + 1, merged, st, uid, t, oks)

\* TokenLimiter.is_limit_exceeded
is_limit_exceeded(st, uid, t, oks) == LimiterLoop(1, InitialTotalUsage, st, uid, t, oks)

\* TokenLimiter.get_meter_limits: for each meter name, the limits the
\* dictionary's value carries; the code stores period_config["input_limit"].
get_meter_limits ==
    [n \in {Meters[i].name : i \in 1..Len(Meters)} |->
        LET cfg == CHOOSE c \in {Meters[i] : i \in 1..Len(Meters)} : c.name = n
        IN  [input_limit |-> cfg.input_limit]]

\* ------------------------------------------------- TokenReservationManager
\* int(daily_output_limit * 0.5)
ReservationAmount == env.DAILY_OUTPUT_LIMIT \div 2

ReservationTtlSeconds == DEFAULT_RESERVATION_TTL_MINUTES * 60

\* f"reservation:daily:{date_str}:{reservation_uuid}"
ReservationId(t, uuid) == <<"reservation", "daily", DateStr(t), uuid>>

\* An item charged half of the monthly output limit.
ReservationItemMonthly(uid, t, uuid) ==
    [user_id |-> uid, period_id |-> ReservationId(t, uuid),
     input_tokens |-> 0, output_tokens |-> env.MONTHLY_OUTPUT_LIMIT \div 2,
     timestamp |-> t, ttl |-> t + ReservationTtlSeconds]

\* An item whose ttl takes the configured minutes for hours.
ReservationItemLongTtl(uid, t, uuid) ==
    [user_id |-> uid, period_id |-> ReservationId(t, uuid),
     input_tokens |-> 0, output_tokens |-> ReservationAmount,
     timestamp |-> t, ttl |-> t + ReservationTtlSeconds * 60]

\* The item create_reservation puts.
ReservationItem(uid, t, uuid) ==
    [user_id |-> uid, period_id |-> ReservationId(t, uuid),
     input_tokens |-> 0, output_tokens |-> ReservationAmount,
     timestamp |-> t, ttl |-> t + ReservationTtlSeconds]

\* A query of the reservations that leaves the user out of its key condition.
get_active_reservationsAnyUser(st, uid, t, ok) ==
    IF ok
    THEN {it \in st : BeginsWith(it.period_id, <<"reservation", "daily", DateStr(t)>>)}
    ELSE {}

\* get_active_reservations; ok = FALSE: the query raises, the result is []
get_active_reservations(st, uid, t, ok) ==
    IF ok THEN QueryBeginsWith(st, uid, <<"reservation", "daily", DateStr(t)>>)
    ELSE {}

get_total_reserved_tokens(st, uid, t, ok) ==
    SumField(get_active_reservations(st, uid, t, ok), "output_tokens")

\* A reservation check that leaves the outstanding reservations out of the sum.
ReservationCheckNoReserved(usage_data, total_reserved) ==
    LET daily_output_limit == env.DAILY_OUTPUT_LIMIT
        reservation_amount == daily_output_limit \div 2
        total_with_new_reservation == usage_data.daily_output_tokens + reservation_amount
        exceeded == total_with_new_reservation > daily_output_limit
    IN  [is_exceeded |-> exceeded,
         token_type |-> IF exceeded THEN "output" ELSE "none",
         period |-> IF exceeded THEN "daily" ELSE "none",
         usage_data |-> usage_data,
         total_reserved_tokens |-> total_reserved,
         new_reservation_amount |-> reservation_amount,
         total_with_reservation |-> total_with_new_reservation]

\* A reservation check that denies already when the sum reaches the limit.
ReservationCheckAtLeast(usage_data, total_reserved) ==
    LET daily_output_limit == env.DAILY_OUTPUT_LIMIT
        reservation_amount == daily_output_limit \div 2
        total_with_new_reservation ==
            usage_data.daily_output_tokens + total_reserved + reservation_amount
        exceeded == total_with_new_reservation >= daily_output_limit
    IN  [is_exceeded |-> exceeded,
         token_type |-> IF exceeded THEN "output" ELSE "none",
         period |-> IF exceeded THEN "daily" ELSE "none",
         usage_data |-> usage_data,
         total_reserved_tokens |-> total_reserved,
         new_reservation_amount |-> reservation_amount,
         total_with_reservation |-> total_with_new_reservation]

\* A reservation check that compares the sum with the monthly output limit.
ReservationCheckMonthly(usage_data, total_reserved) ==
    LET reservation_amount == env.DAILY_OUTPUT_LIMIT \div 2
        total_with_new_reservation ==
            usage_data.daily_output_tokens + total_reserved + reservation_amount
        exceeded == total_with_new_reservation > env.MONTHLY_OUTPUT_LIMIT
    IN  [is_exceeded |-> exceeded,
         token_type |-> IF exceeded THEN "output" ELSE "none",
         period |-> IF exceeded THEN "daily" ELSE "none",
         usage_data |-> usage_data,
         total_reserved_tokens |-> total_reserved,
         new_reservation_amount |-> reservation_amount,
         total_with_reservation |-> total_with_new_reservation]

\* A reservation check that leaves the recorded usage out of the sum.
ReservationCheckNoUsage(usage_data, total_reserved) ==
    LET daily_output_limit == env.DAILY_OUTPUT_LIMIT
        reservation_amount == daily_output_limit \div 2
        total_with_new_reservation == total_reserved + reservation_amount
        exceeded == total_with_new_reservation > daily_output_limit
    IN  [is_exceeded |-> exceeded,
         token_type |-> IF exceeded THEN "output" ELSE "none",
         period |-> IF exceeded THEN "daily" ELSE "none",
         usage_data |-> usage_data,
         total_reserved_tokens |-> total_reserved,
         new_reservation_amount |-> reservation_amount,
         total_with_reservation |-> total_with_new_reservation]

\* is_limit_exceeded_with_reservation after its is_limit_exceeded call
\* returned not exceeded with usage_data (lines 410-449).
ReservationCheck(usage_data, total_reserved) ==
    LET daily_output_limit == env.DAILY_OUTPUT_LIMIT
        reservation_amount == daily_output_limit \div 2
        total_with_new_reservation ==
            usage_data.daily_output_tokens + total_reserved + reservation_amount
        exceeded == total_with_new_reservation > daily_output_limit
    IN  [is_exceeded |-> exceeded,
         token_type |-> IF exceeded THEN "output" ELSE "none",
         period |-> IF exceeded THEN "daily" ELSE "none",
         usage_data |-> usage_data,
         total_reserved_tokens |-> total_reserved,
         new_reservation_amount |-> reservation_amount,
         total_with_reservation |-> total_with_new_reservation]

\* ------------------------------------------------------------ initial state
DefaultUser == "alice"
NoReservation == <<>>
NoTracker == [input_tokens |-> 0, output_tokens |-> 0, metadata_processed |-> FALSE]
NoOutcome == [error_type |-> "none", tokenType |-> "none", period |-> "none"]
NoAdmission ==
    [is_exceeded |-> FALSE, token_type |-> "none", period |-> "none",
     usage_data |-> InitialTotalUsage, total_reserved_tokens |-> 0,
     new_reservation_amount |-> 0, total_with_reservation |-> 0,
     decided |-> FALSE, reserved_read |-> FALSE, read_failed |-> FALSE]

DefaultEnv ==
    [DAILY_INPUT_LIMIT |-> DEFAULT_DAILY_INPUT_LIMIT,
     DAILY_OUTPUT_LIMIT |-> DEFAULT_DAILY_OUTPUT_LIMIT,
     MONTHLY_INPUT_LIMIT |-> DEFAULT_MONTHLY_INPUT_LIMIT,
     MONTHLY_OUTPUT_LIMIT |-> DEFAULT_MONTHLY_OUTPUT_LIMIT]

\* TokenLimiter.update_usage's store calls when every one succeeds.
RecordAll(st, uid, t, i, o) ==
    MeterUpdateUsage(Meters[2], MeterUpdateUsage(Meters[1], st, uid, t, i, o), uid, t, i, o)

RECURSIVE UpdateLoop(_, _, _, _, _, _, _, _)
\* The loop of TokenLimiter.update_usage from meter k on; oks[k] = FALSE:
\* the update_item of meter k raises and the meter returns False.
UpdateLoop(k, st, success, uid, t, i, o, oks) ==
    IF k > Len(Meters)
    THEN [store |-> st, success |-> success]
    ELSE IF oks[k]
         THEN UpdateLoop(k + 1, MeterUpdateUsage(Meters[k], st, uid, t, i, o),
                         success, uid, t, i, o, oks)
         ELSE UpdateLoop(k + 1, st, FALSE, uid, t, i, o, oks)

\* A limiter that gives up at the first meter that fails.
update_usageStopping(st, uid, t, i, o, oks) ==
    IF oks[1]
    THEN UpdateLoop(2, MeterUpdateUsage(Meters[1], st, uid, t, i, o), TRUE,
                    uid, t, i, o, oks)
    ELSE [store |-> st, success |-> FALSE]

\* TokenLimiter.update_usage (lines 379-389): the table it leaves and the
\* value it returns.
update_usage(st, uid, t, i, o, oks) ==
    UpdateLoop(1, st, TRUE, uid, t, i, o, oks)

\* The ledger's entry for one acknowledged update_item.
LedgerAdd(lg, uid, pid, i, o) ==
    LET old == {e \in lg : e.user_id = uid /\ e.period_id = pid}
        base == IF old = {} THEN [user_id |-> uid, period_id |-> pid,
                                  input_tokens |-> 0, output_tokens |-> 0]
                ELSE CHOOSE e \in old : TRUE
    IN  (lg \ old) \cup {[base EXCEPT !.input_tokens = @ + i, !.output_tokens = @ + o]}

LedgerOf(st) ==
    {[user_id |-> it.user_id, period_id |-> it.period_id,
      input_tokens |-> it.input_tokens, output_tokens |-> it.output_tokens] : it \in st}

\* The table after earlier requests of DefaultUser recorded usage a in all,
\* thirty seconds before StartTime.
PriorStore(a) ==
    IF a = <<0, 0>> THEN {}
    ELSE RecordAll({}, DefaultUser, StartTime - 30, a[1], a[2])

\* The initial state of a run under scenario sc, the invocations carrying
\* up to max_events events each.
InitOf(sc, max_events) ==
    /\ now = StartTime
    /\ scenario = sc
    /\ env = DefaultEnv
    /\ \E a \in PriorAmounts :
          /\ store = PriorStore(a)
          /\ ledger = LedgerOf(PriorStore(a))
    /\ pc = [p \in Procs |-> "start"]
    /\ sub = [p \in Procs |-> DefaultUser]
    /\ events \in [Procs -> 0..max_events]
    /\ admission = [p \in Procs |-> NoAdmission]
    /\ reservation_id = [p \in Procs |-> NoReservation]
    /\ tracker = [p \in Procs |-> NoTracker]
    /\ outcome = [p \in Procs |-> NoOutcome]
    /\ removes = [p \in Procs |-> 0]

\* Concurrent invocations, a store whose calls can fail, time passing.
Init ==
    InitOf([horizon |-> StartTime + MaxTicks * MaxStep, faults |-> TRUE,
            serial |-> FALSE, amounts |-> Amounts], MaxEvents)

\* The outcomes of a store call: it returns (TRUE) or raises (FALSE).
CallOutcomes == IF scenario.faults THEN BOOLEAN ELSE {TRUE}

ReadFlags == [1..Len(Meters) -> CallOutcomes]

\* The outcomes of an update_item: in a scenario with record_faults only the
\* usage records can fail.
RecordOutcomes ==
    IF scenario.faults \/ ("record_faults" \in DOMAIN scenario /\ scenario.record_faults)
    THEN BOOLEAN ELSE {TRUE}

\* Invocations are numbered in the order of their first step.
Arrived(p) == \A q \in Procs : q < p => pc[q] # "start"

\* The positions inside create_reservation, between its first read and its
\* put_item.
AdmitPcs == {"reserve", "reserve_read", "put"}

\* In a serial scenario no invocation takes a step while another one is
\* between the reads and the write of its admission.
Turn(p) ==
    scenario.serial => \A q \in Procs \ {p} : pc[q] \notin AdmitPcs

\* ---------------------------------------------------------- lambda_handler
\* validate_channel_auth fails (lines 198-200): the handler returns.
Unauthorized(p) ==
    /\ pc[p] = "start"
    /\ Turn(p)
    /\ Arrived(p)
    /\ pc' = [pc EXCEPT ![p] = "done"]
    /\ UNCHANGED <<now, scenario, env, store, ledger, sub, events, admission,
                   reservation_id, tracker, outcome, removes>>

\* An authorized event: token_limiter.is_limit_exceeded(sub) and the
\* limit-exceeded reply (lines 204-227).  token_usage is only echoed to the
\* client and is not kept.
CheckLimits(p) ==
    /\ pc[p] = "start"
    /\ Turn(p)
    /\ Arrived(p)
    /\ \E oks \in ReadFlags :
          LET r == is_limit_exceeded(store, sub[p], now, oks)
          IN  IF r.is_exceeded
              THEN /\ outcome' = [outcome EXCEPT ![p] =
                          [error_type |-> "token_limit_exceeded",
                           tokenType |-> r.token_type, period |-> r.period]]
                   /\ pc' = [pc EXCEPT ![p] = "finally"]
              ELSE /\ outcome' = outcome
                   /\ pc' = [pc EXCEPT ![p] = "reserve"]
    /\ UNCHANGED <<now, scenario, env, store, ledger, sub, events, admission,
                   reservation_id, tracker, removes>>

\* Where lambda_handler's loop over event["events"] (line 259) stands when n
\* entries are left: at the next entry, or past the loop at the finally block.
LoopOrFinally(n) == IF n > 0 THEN "loop" ELSE "finally"

ReservationFailed ==
    [error_type |-> "reservation_failed", tokenType |-> "output", period |-> "daily"]

\* create_reservation -> is_limit_exceeded_with_reservation: the call of
\* is_limit_exceeded (lines 405-408).  Exceeded: create_reservation returns
\* None and the handler replies reservation_failed (lines 232-249).
ReserveCheckUsage(p) ==
    /\ pc[p] = "reserve"
    /\ Turn(p)
    /\ \E oks \in ReadFlags :
          LET r == is_limit_exceeded(store, sub[p], now, oks)
          IN  /\ admission' = [admission EXCEPT ![p] =
                     [NoAdmission EXCEPT !.is_exceeded = r.is_exceeded,
                                         !.token_type = r.token_type,
                                         !.period = r.period,
                                         !.usage_data = r.usage_data,
                                         !.decided = r.is_exceeded,
                                         !.read_failed = \E i \in DOMAIN oks : ~oks[i]]]
              /\ IF r.is_exceeded
                 THEN /\ outcome' = [outcome EXCEPT ![p] = ReservationFailed]
                      /\ pc' = [pc EXCEPT ![p] = "finally"]
                 ELSE /\ outcome' = outcome
                      /\ pc' = [pc EXCEPT ![p] = "reserve_read"]
    /\ UNCHANGED <<now, scenario, env, store, ledger, sub, events,
                   reservation_id, tracker, removes>>

\* is_limit_exceeded_with_reservation: get_total_reserved_tokens and the
\* comparison (lines 410-449), then create_reservation's test (lines 466-476).
ReserveCheckReserved(p) ==
    /\ pc[p] = "reserve_read"
    /\ Turn(p)
    /\ \E ok \in CallOutcomes :
          LET total_reserved == get_total_reserved_tokens(store, sub[p], now, ok)
              r == ReservationCheck(admission[p].usage_data, total_reserved)
          IN  /\ admission' = [admission EXCEPT ![p] =
                     [@ EXCEPT !.is_exceeded = r.is_exceeded,
                               !.token_type = r.token_type,
                               !.period = r.period,
                               !.total_reserved_tokens = r.total_reserved_tokens,
                               !.new_reservation_amount = r.new_reservation_amount,
                               !.total_with_reservation = r.total_with_reservation,
                               !.decided = TRUE,
                               !.reserved_read = TRUE,
                               !.read_failed = @ \/ ~ok]]
              /\ IF r.is_exceeded
                 THEN /\ outcome' = [outcome EXCEPT ![p] = ReservationFailed]
                      /\ pc' = [pc EXCEPT ![p] = "finally"]
                 ELSE /\ outcome' = outcome
                      /\ pc' = [pc EXCEPT ![p] = "put"]
    /\ UNCHANGED <<now, scenario, env, store, ledger, sub, events,
                   reservation_id, tracker, removes>>

\* A create_reservation whose failed put_item has written the item all the same.
PutReservationLeaky(p) ==
    /\ pc[p] = "put"
    /\ Turn(p)
    /\ \E ok \in CallOutcomes :
          /\ store' = PutItem(store, ReservationItem(sub[p], now, p))
          /\ IF ok
             THEN /\ reservation_id' = [reservation_id EXCEPT ![p] = ReservationId(now, p)]
                  /\ outcome' = outcome
                  /\ pc' = [pc EXCEPT ![p] = LoopOrFinally(events[p])]
             ELSE /\ reservation_id' = reservation_id
                  /\ outcome' = [outcome EXCEPT ![p] = ReservationFailed]
                  /\ pc' = [pc EXCEPT ![p] = "finally"]
    /\ UNCHANGED <<now, scenario, env, ledger, sub, events, admission,
                   tracker, removes>>

\* TokenReservationManager.create_reservation (lines 524-582); the uuid4 of
\* an invocation is its own number.  A failed put_item returns None.
PutReservation(p) ==
    /\ pc[p] = "put"
    /\ Turn(p)
    /\ \E ok \in CallOutcomes :
          IF ok
          THEN /\ store' = PutItem(store, ReservationItem(sub[p], now, p))
               /\ reservation_id' = [reservation_id EXCEPT ![p] = ReservationId(now, p)]
               /\ outcome' = outcome
               /\ pc' = [pc EXCEPT ![p] = LoopOrFinally(events[p])]
          ELSE /\ store' = store
               /\ reservation_id' = reservation_id
               /\ outcome' = [outcome EXCEPT ![p] = ReservationFailed]
               /\ pc' = [pc EXCEPT ![p] = "finally"]
    /\ UNCHANGED <<now, scenario, env, ledger, sub, events, admission,
                   tracker, removes>>

\* A remove_reservation that deletes the user's reservations of the id's day.
remove_reservation_day(st, uid, rid, ok) ==
    IF ok THEN st \ QueryBeginsWith(st, uid, SubSeq(rid, 1, 3)) ELSE st

\* A remove_reservation that deletes every reservation of the user.
remove_reservation_all(st, uid, rid, ok) ==
    IF ok THEN st \ QueryBeginsWith(st, uid, <<"reservation">>) ELSE st

\* TokenLimiter.remove_reservation -> TokenReservationManager.remove_reservation
\* (lines 584-623): the table after the call; ok = FALSE: delete_item raises
\* and the call returns False.
remove_reservation(st, uid, rid, ok) ==
    IF ok THEN DeleteItem(st, uid, rid) ELSE st

\* What remove_reservation returns: True unless delete_item raised; a
\* delete_item without condition does not raise for a missing key.
remove_reservation_result(st, uid, rid, ok) == ok

RECURSIVE CleanupLoop(_, _, _, _, _)
\* The loop of cleanup_expired_reservations over the queried items that are
\* left: an item whose ttl has passed is removed, and counted when
\* remove_reservation returns True; failed: the ids whose delete_item raises.
CleanupLoop(items, st, uid, t, failed) ==
    IF items = {}
    THEN [store |-> st, cleaned_count |-> 0]
    ELSE LET item == CHOOSE it \in items : TRUE
             ok == item.period_id \notin failed
             expired == item.ttl > 0 /\ t > item.ttl
             rest == CleanupLoop(items \ {item},
                                 IF expired
                                 THEN remove_reservation(st, uid, item.period_id, ok)
                                 ELSE st,
                                 uid, t, failed)
         IN  IF expired /\ remove_reservation_result(st, uid, item.period_id, ok)
             THEN [rest EXCEPT !.cleaned_count = @ + 1]
             ELSE rest

\* A cleanup that looks at the reservations of the current day only.
cleanup_expired_reservationsToday(st, uid, t, ok, failed) ==
    IF ok
    THEN CleanupLoop(QueryBeginsWith(st, uid, <<"reservation", "daily", DateStr(t)>>),
                     st, uid, t, failed)
    ELSE [store |-> st, cleaned_count |-> 0]

\* A cleanup that queries every item of the user.
cleanup_expired_reservationsAnyPrefix(st, uid, t, ok, failed) ==
    IF ok
    THEN CleanupLoop({it \in st : it.user_id = uid}, st, uid, t, failed)
    ELSE [store |-> st, cleaned_count |-> 0]

\* TokenReservationManager.cleanup_expired_reservations (lines 686-739) at
\* time t: the table it leaves and the count it returns; ok = FALSE: the
\* query raises and 0 is returned.
cleanup_expired_reservations(st, uid, t, ok, failed) ==
    IF ok
    THEN CleanupLoop(QueryBeginsWith(st, uid, <<"reservation">>), st, uid, t, failed)
    ELSE [store |-> st, cleaned_count |-> 0]

\* An event whose payload does not parse or validate, or whose message
\* simulates an error (lines 266-304, 425-434): an error event is sent and
\* the loop goes on; no store call is made.
MessageInvalid(p) ==
    /\ pc[p] = "loop"
    /\ Turn(p)
    /\ events[p] > 0
    /\ events' = [events EXCEPT ![p] = @ - 1]
    /\ pc' = [pc EXCEPT ![p] = LoopOrFinally(events'[p])]
    /\ UNCHANGED <<now, scenario, env, store, ledger, sub, admission,
                   reservation_id, tracker, outcome, removes>>

\* An exception leaves the loop (send_error_event raising inside an except
\* block, lines 284-304): the outer handler logs it (lines 306-329).
HandlerAbort(p) ==
    /\ pc[p] = "loop"
    /\ Turn(p)
    /\ events[p] > 0
    /\ events' = [events EXCEPT ![p] = 0]
    /\ pc' = [pc EXCEPT ![p] = "finally"]
    /\ UNCHANGED <<now, scenario, env, store, ledger, sub, admission,
                   reservation_id, tracker, outcome, removes>>

\* A cached path that records the counts its metrics estimate.
MessageCachedCharged(p) ==
    /\ pc[p] = "loop"
    /\ Turn(p)
    /\ events[p] > 0
    /\ events' = [events EXCEPT ![p] = @ - 1]
    /\ \E ok \in CallOutcomes : \E a \in scenario.amounts :
          store' = RecordAll(remove_reservation(store, sub[p], reservation_id[p], ok),
                             sub[p], now, a[1], a[2])
    /\ removes' = [removes EXCEPT ![p] = @ + 1]
    /\ pc' = [pc EXCEPT ![p] = LoopOrFinally(events'[p])]
    /\ UNCHANGED <<now, scenario, env, ledger, sub, admission,
                   reservation_id, tracker, outcome>>

\* process_message on a prompt with a cached response (lines 436-513): the
\* response is published, the reservation removed, and the function returns.
MessageCached(p) ==
    /\ pc[p] = "loop"
    /\ Turn(p)
    /\ events[p] > 0
    /\ events' = [events EXCEPT ![p] = @ - 1]
    /\ \E ok \in CallOutcomes :
          store' = remove_reservation(store, sub[p], reservation_id[p], ok)
    /\ removes' = [removes EXCEPT ![p] = @ + 1]
    /\ pc' = [pc EXCEPT ![p] = LoopOrFinally(events'[p])]
    /\ UNCHANGED <<now, scenario, env, ledger, sub, admission,
                   reservation_id, tracker, outcome>>

\* process_message without a cached response (lines 526-556): the model's
\* stream delivers a metadata event, MessageTracker.process_stream_event
\* (messages.py lines 54-66) takes its counts and returns True.
MessageStreamUsage(p) ==
    /\ pc[p] = "loop"
    /\ Turn(p)
    /\ events[p] > 0
    /\ events' = [events EXCEPT ![p] = @ - 1]
    /\ \E a \in scenario.amounts :
          tracker' = [tracker EXCEPT ![p] =
                         [input_tokens |-> a[1], output_tokens |-> a[2],
                          metadata_processed |-> TRUE]]
    /\ pc' = [pc EXCEPT ![p] = "update_1"]
    /\ UNCHANGED <<now, scenario, env, store, ledger, sub, admission,
                   reservation_id, outcome, removes>>

\* process_message without a cached response: the model call or a publish
\* raises before any metadata event (lines 627-672).
MessageStreamError(p) ==
    /\ pc[p] = "loop"
    /\ Turn(p)
    /\ events[p] > 0
    /\ events' = [events EXCEPT ![p] = @ - 1]
    /\ pc' = [pc EXCEPT ![p] = "msg_finally"]
    /\ UNCHANGED <<now, scenario, env, store, ledger, sub, admission,
                   reservation_id, tracker, outcome, removes>>

\* An update_usage whose failure leaves process_message at once, past its
\* finally block.
UpdateMeterRaising(p, i) ==
    /\ pc[p] = IF i = 1 THEN "update_1" ELSE "update_2"
    /\ Turn(p)
    /\ \E ok \in RecordOutcomes :
          LET cfg == Meters[i]
              input_tokens == tracker[p].input_tokens
              output_tokens == tracker[p].output_tokens
          IN  IF ok
              THEN /\ store' = MeterUpdateUsage(cfg, store, sub[p], now,
                                                input_tokens, output_tokens)
                   /\ ledger' = LedgerAdd(ledger, sub[p],
                                          IdFormat(cfg, RoundTime(cfg, now)),
                                          input_tokens, output_tokens)
                   /\ pc' = [pc EXCEPT ![p] = IF i < Len(Meters) THEN "update_2"
                                              ELSE "msg_finally"]
              ELSE /\ UNCHANGED <<store, ledger>>
                   /\ pc' = [pc EXCEPT ![p] = "done"]
    /\ UNCHANGED <<now, scenario, env, sub, events, admission,
                   reservation_id, tracker, outcome, removes>>

\* TokenLimiter.update_usage (lines 379-389): TokenMeter.update_usage of
\* meter i (lines 261-309); ok = FALSE: update_item raises, False is returned.
\* After the last meter the rest of the stream changes nothing and
\* process_message's finally block is next.
UpdateMeter(p, i) ==
    /\ pc[p] = IF i = 1 THEN "update_1" ELSE "update_2"
    /\ Turn(p)
    /\ \E ok \in RecordOutcomes :
          LET cfg == Meters[i]
              input_tokens == tracker[p].input_tokens
              output_tokens == tracker[p].output_tokens
          IN  IF ok
              THEN /\ store' = MeterUpdateUsage(cfg, store, sub[p], now,
                                                input_tokens, output_tokens)
                   /\ ledger' = LedgerAdd(ledger, sub[p],
                                          IdFormat(cfg, RoundTime(cfg, now)),
                                          input_tokens, output_tokens)
              ELSE UNCHANGED <<store, ledger>>
    /\ pc' = [pc EXCEPT ![p] = IF i < Len(Meters) THEN "update_2" ELSE "msg_finally"]
    /\ UNCHANGED <<now, scenario, env, sub, events, admission,
                   reservation_id, tracker, outcome, removes>>

\* process_message's finally block (lines 674-693).
MessageFinally(p) ==
    /\ pc[p] = "msg_finally"
    /\ Turn(p)
    /\ \E ok \in CallOutcomes :
          store' = remove_reservation(store, sub[p], reservation_id[p], ok)
    /\ removes' = [removes EXCEPT ![p] = @ + 1]
    /\ tracker' = [tracker EXCEPT ![p] = NoTracker]
    /\ pc' = [pc EXCEPT ![p] = LoopOrFinally(events[p])]
    /\ UNCHANGED <<now, scenario, env, ledger, sub, events, admission,
                   reservation_id, outcome>>

\* A handler's finally block without the remove.
HandlerFinallyReturning(p) ==
    /\ pc[p] = "finally"
    /\ Turn(p)
    /\ admission' = [admission EXCEPT ![p] = NoAdmission]
    /\ pc' = [pc EXCEPT ![p] = "done"]
    /\ UNCHANGED <<now, scenario, env, store, ledger, sub, events, reservation_id,
                   tracker, outcome, removes>>

\* lambda_handler's finally block (lines 331-350); the invocation's locals
\* end with it.
HandlerFinally(p) ==
    /\ pc[p] = "finally"
    /\ Turn(p)
    /\ IF reservation_id[p] # NoReservation
       THEN /\ \E ok \in CallOutcomes :
                  store' = remove_reservation(store, sub[p], reservation_id[p], ok)
            /\ removes' = [removes EXCEPT ![p] = @ + 1]
       ELSE UNCHANGED <<store, removes>>
    /\ admission' = [admission EXCEPT ![p] = NoAdmission]
    /\ pc' = [pc EXCEPT ![p] = "done"]
    /\ UNCHANGED <<now, scenario, env, ledger, sub, events, reservation_id, tracker, outcome>>

\* ------------------------------------------------------------ environment
\* Time passes.
Tick ==
    /\ \E d \in TickSteps :
          /\ now + d <= scenario.horizon
          /\ now' = now + d
    /\ UNCHANGED <<scenario, env, store, ledger, pc, sub, events, admission,
                   reservation_id, tracker, outcome, removes>>

\* DynamoDB's TTL process deletes an item some time after its ttl has passed.
TtlExpire ==
    /\ \E it \in store :
          /\ it.ttl < now
          /\ store' = store \ {it}
          /\ ledger' = {e \in ledger :
                           ~(e.user_id = it.user_id /\ e.period_id = it.period_id)}
    /\ UNCHANGED <<now, scenario, env, pc, sub, events, admission,
                   reservation_id, tracker, outcome, removes>>

Next ==
    \/ \E p \in Procs : Unauthorized(p)
    \/ \E p \in Procs : CheckLimits(p)
    \/ \E p \in Procs : ReserveCheckUsage(p)
    \/ \E p \in Procs : ReserveCheckReserved(p)
    \/ \E p \in Procs : PutReservation(p)
    \/ \E p \in Procs : MessageInvalid(p)
    \/ \E p \in Procs : HandlerAbort(p)
    \/ \E p \in Procs : MessageCached(p)
    \/ \E p \in Procs : MessageStreamUsage(p)
    \/ \E p \in Procs : MessageStreamError(p)
    \/ \E p \in Procs : \E i \in 1..Len(Meters) : UpdateMeter(p, i)
    \/ \E p \in Procs : MessageFinally(p)
    \/ \E p \in Procs : HandlerFinally(p)
    \/ Tick
    \/ TtlExpire

Spec == Init /\ [][Next]_vars

\* -------------------------------------------------------- serial admissions
\* Largest number of entries of event["events"] in a serial run.
SerialMaxEvents == 2
\* The counts a stream reports in a serial run: two messages of one
\* invocation together record no more than one reservation.
SerialAmounts == {<<2500, 5000>>}

\* Admissions that run one at a time: from its first read to its put_item no
\* other invocation takes a step.  The store answers every call, and the run
\* is over before any TTL passes or the day changes.
InitSerial ==
    InitOf([horizon |-> StartTime, faults |-> FALSE, serial |-> TRUE,
            amounts |-> SerialAmounts], SerialMaxEvents)

NextSerial ==
    \/ \E p \in Procs : Unauthorized(p)
    \/ \E p \in Procs : CheckLimits(p)
    \/ \E p \in Procs : ReserveCheckUsage(p)
    \/ \E p \in Procs : ReserveCheckReserved(p)
    \/ \E p \in Procs : PutReservation(p)
    \/ \E p \in Procs : MessageInvalid(p)
    \/ \E p \in Procs : HandlerAbort(p)
    \/ \E p \in Procs : MessageCached(p)
    \/ \E p \in Procs : MessageStreamUsage(p)
    \/ \E p \in Procs : MessageStreamError(p)
    \/ \E p \in Procs : \E i \in 1..Len(Meters) : UpdateMeter(p, i)
    \/ \E p \in Procs : MessageFinally(p)
    \/ \E p \in Procs : HandlerFinally(p)

SpecSerial == InitSerial /\ [][NextSerial]_vars

\* ------------------------------------------------------ abandoned requests
\* The Lambda runtime ends an invocation that holds a reservation (timeout,
\* out of memory) before any message is processed: no finally block runs.
Crash(p) ==
    /\ pc[p] \in {"loop", "finally"}
    /\ Turn(p)
    /\ reservation_id[p] # NoReservation
    /\ removes[p] = 0
    /\ pc' = [pc EXCEPT ![p] = "crashed"]
    /\ UNCHANGED <<now, scenario, env, store, ledger, sub, events, admission,
                   reservation_id, tracker, outcome, removes>>

\* Runs in which invocations can be ended from outside; the store answers
\* every call and admissions run one at a time.
InitCrash ==
    InitOf([horizon |-> StartTime + MaxTicks * MaxStep, faults |-> FALSE,
            serial |-> TRUE, amounts |-> Amounts], MaxEvents)

NextCrash ==
    \/ Next
    \/ \E p \in Procs : Crash(p)

\* The clock keeps running and DynamoDB's TTL process deletes every expired
\* item in the end.
SpecCrash ==
    InitCrash /\ [][NextCrash]_vars /\ WF_vars(Tick) /\ WF_vars(TtlExpire)

\* ------------------------------------------------ usage around the limits
\* Usage recorded before the modelled invocations: nothing, one token under
\* a daily limit, and the daily limit itself, for either kind of token.
MeterPriorAmounts ==
    {<<i, o>> : i \in {0, DEFAULT_DAILY_INPUT_LIMIT - 1, DEFAULT_DAILY_INPUT_LIMIT},
                o \in {0, DEFAULT_DAILY_OUTPUT_LIMIT - 1, DEFAULT_DAILY_OUTPUT_LIMIT}}

InitMeter ==
    /\ now = StartTime
    /\ scenario = [horizon |-> StartTime, faults |-> FALSE, serial |-> TRUE,
                   amounts |-> Amounts]
    /\ env = DefaultEnv
    /\ \E a \in MeterPriorAmounts :
          /\ store = PriorStore(a)
          /\ ledger = LedgerOf(PriorStore(a))
    /\ pc = [p \in Procs |-> "start"]
    /\ sub = [p \in Procs |-> DefaultUser]
    /\ events \in [Procs -> 0..MaxEvents]
    /\ admission = [p \in Procs |-> NoAdmission]
    /\ reservation_id = [p \in Procs |-> NoReservation]
    /\ tracker = [p \in Procs |-> NoTracker]
    /\ outcome = [p \in Procs |-> NoOutcome]
    /\ removes = [p \in Procs |-> 0]

SpecMeter == InitMeter /\ [][NextSerial]_vars

\* ------------------------------------------------ buckets around the window
\* How long before StartTime the earlier requests recorded usage: forty and
\* thirty minutes more than a day (buckets 23:00 and 23:10 of the day
\* before), a day and thirty seconds (the bucket 23:40 that holds the start
\* of the window), ten minutes less (23:50), and thirty seconds ago.
BucketAges ==
    {DaySeconds + 2400 + 30, DaySeconds + 1800 + 30, DaySeconds + 30,
     DaySeconds - 600 + 30, 30}
\* What each of the earlier requests recorded.
BucketAmounts == <<100, 1000>>

RECURSIVE BucketStore(_)
\* The table after earlier requests recorded usage at the ages of the set.
BucketStore(ages) ==
    IF ages = {} THEN {}
    ELSE LET a == CHOOSE x \in ages : \A y \in ages : y <= x
         IN  RecordAll(BucketStore(ages \ {a}), DefaultUser, StartTime - a,
                       BucketAmounts[1], BucketAmounts[2])

InitAggregate ==
    /\ now = StartTime
    /\ scenario = [horizon |-> StartTime + MaxTicks * MaxStep, faults |-> FALSE,
                   serial |-> TRUE, amounts |-> Amounts]
    /\ env = DefaultEnv
    /\ \E ages \in SUBSET BucketAges :
          /\ store = BucketStore(ages)
          /\ ledger = LedgerOf(BucketStore(ages))
    /\ pc = [p \in Procs |-> "start"]
    /\ sub = [p \in Procs |-> DefaultUser]
    /\ events \in [Procs -> 0..MaxEvents]
    /\ admission = [p \in Procs |-> NoAdmission]
    /\ reservation_id = [p \in Procs |-> NoReservation]
    /\ tracker = [p \in Procs |-> NoTracker]
    /\ outcome = [p \in Procs |-> NoOutcome]
    /\ removes = [p \in Procs |-> 0]

SpecAggregate == InitAggregate /\ [][Next]_vars

\* ------------------------------------------------- requests one at a time
\* Number of requests of the scenario.
ScenarioInvocations == 3
\* The counts the streams of the scenario report.
ScenarioAmounts == {<<100, 900>>, <<50, 1100>>}
\* DAILY_OUTPUT_LIMIT is set to 2000; the other limits are the defaults.
ScenarioEnv == [DefaultEnv EXCEPT !.DAILY_OUTPUT_LIMIT = 2000]

\* No request has arrived; the table is empty.
InitScenario ==
    /\ now = StartTime
    /\ scenario = [horizon |-> StartTime, faults |-> FALSE, serial |-> TRUE,
                   amounts |-> ScenarioAmounts, invocations |-> ScenarioInvocations]
    /\ env = ScenarioEnv
    /\ store = {}
    /\ ledger = {}
    /\ pc = [p \in Procs |-> "done"]
    /\ sub = [p \in Procs |-> DefaultUser]
    /\ events = [p \in Procs |-> 0]
    /\ admission = [p \in Procs |-> NoAdmission]
    /\ reservation_id = [p \in Procs |-> NoReservation]
    /\ tracker = [p \in Procs |-> NoTracker]
    /\ outcome = [p \in Procs |-> NoOutcome]
    /\ removes = [p \in Procs |-> 0]

\* The next request arrives when the one before has returned: lambda_handler
\* starts with fresh locals.
Reinvoke(p) ==
    /\ \A q \in Procs : pc[q] = "done"
    /\ scenario.invocations > 0
    /\ scenario' = [scenario EXCEPT !.invocations = @ - 1]
    /\ pc' = [pc EXCEPT ![p] = "start"]
    /\ events' \in {[events EXCEPT ![p] = n] : n \in 0..MaxEvents}
    /\ reservation_id' = [reservation_id EXCEPT ![p] = NoReservation]
    /\ tracker' = [tracker EXCEPT ![p] = NoTracker]
    /\ outcome' = [outcome EXCEPT ![p] = NoOutcome]
    /\ removes' = [removes EXCEPT ![p] = 0]
    /\ UNCHANGED <<now, env, store, ledger, sub, admission>>

NextScenario ==
    \/ NextSerial
    \/ \E p \in Procs : Reinvoke(p)

SpecScenario == InitScenario /\ [][NextScenario]_vars

\* ---------------------------------------------------- building the limiter
\* The keys a period configuration of the factories carries (lines 38-52).
PolicyKeys == required_keys \cup {"query_window"}

\* The configurations the daily meter is built from: the factory's, and the
\* factory's with one required key left out.
PeriodConfigs == {PolicyKeys} \cup {PolicyKeys \ {k} : k \in required_keys}

InitConstruct ==
    /\ now = StartTime
    /\ \E keys \in PeriodConfigs :
          scenario = [horizon |-> StartTime, faults |-> FALSE, serial |-> TRUE,
                      amounts |-> Amounts, period_config |-> keys]
    /\ env = DefaultEnv
    /\ \E a \in PriorAmounts :
          /\ store = PriorStore(a)
          /\ ledger = LedgerOf(PriorStore(a))
    /\ pc = [p \in Procs |-> "import"]
    /\ sub = [p \in Procs |-> DefaultUser]
    /\ events \in [Procs -> 0..MaxEvents]
    /\ admission = [p \in Procs |-> NoAdmission]
    /\ reservation_id = [p \in Procs |-> NoReservation]
    /\ tracker = [p \in Procs |-> NoTracker]
    /\ outcome = [p \in Procs |-> NoOutcome]
    /\ removes = [p \in Procs |-> 0]

\* The module is loaded in a fresh execution environment: token_limiter =
\* TokenLimiter() builds the meters (chatbot_handler.py line 42).  A
\* ValueError of TokenMeter.__init__ ends the load; no handler runs.
ColdStart(p) ==
    /\ pc[p] = "import"
    /\ pc' = [pc EXCEPT ![p] =
                 IF TokenMeterInit(scenario.period_config) = "meter"
                 THEN "start" ELSE "import_failed"]
    /\ UNCHANGED <<now, scenario, env, store, ledger, sub, events, admission,
                   reservation_id, tracker, outcome, removes>>

NextConstruct ==
    \/ NextSerial
    \/ \E p \in Procs : ColdStart(p)

SpecConstruct == InitConstruct /\ [][NextConstruct]_vars

\* ------------------------------------------------- failing usage records
\* Concurrent invocations on a store whose update_item can fail while every
\* other call is answered; no time passes.
InitRecordFaults ==
    InitOf([horizon |-> StartTime, faults |-> FALSE, serial |-> FALSE,
            amounts |-> Amounts, record_faults |-> TRUE], MaxEvents)

SpecRecordFaults == InitRecordFaults /\ [][NextSerial]_vars

\* ------------------------------------------- usage around the monthly limits
\* Usage recorded three days before, out of the daily window and within the
\* month: nothing, or a monthly limit of either kind of token.
EarlierAmounts ==
    {<<0, 0>>, <<DEFAULT_MONTHLY_INPUT_LIMIT, 0>>, <<0, DEFAULT_MONTHLY_OUTPUT_LIMIT>>}
EarlierAge == 3 * DaySeconds

\* The table after the earlier usage e and the recent usage a.
LimiterStore(e, a) ==
    LET early == IF e = <<0, 0>> THEN {}
                 ELSE RecordAll({}, DefaultUser, StartTime - EarlierAge, e[1], e[2])
    IN  IF a = <<0, 0>> THEN early
        ELSE RecordAll(early, DefaultUser, StartTime - 30, a[1], a[2])

InitLimiter ==
    /\ now = StartTime
    /\ scenario = [horizon |-> StartTime, faults |-> FALSE, serial |-> TRUE,
                   amounts |-> Amounts]
    /\ env = DefaultEnv
    /\ \E e \in EarlierAmounts : \E a \in MeterPriorAmounts :
          /\ store = LimiterStore(e, a)
          /\ ledger = LedgerOf(LimiterStore(e, a))
    /\ pc = [p \in Procs |-> "start"]
    /\ sub = [p \in Procs |-> DefaultUser]
    /\ events \in [Procs -> 0..MaxEvents]
    /\ admission = [p \in Procs |-> NoAdmission]
    /\ reservation_id = [p \in Procs |-> NoReservation]
    /\ tracker = [p \in Procs |-> NoTracker]
    /\ outcome = [p \in Procs |-> NoOutcome]
    /\ removes = [p \in Procs |-> 0]

SpecLimiter == InitLimiter /\ [][NextSerial]_vars

\* ------------------------------------------------------- manual cleanup
\* A reservation an abandoned request of the day before has left; the TTL
\* process, which may lag by days, has not deleted it yet.
LeftoverReservation == ReservationItem(DefaultUser, StartTime - DaySeconds, 0)

InitSweep ==
    /\ now = StartTime
    /\ scenario = [horizon |-> StartTime + MaxTicks * MaxStep, faults |-> FALSE,
                   serial |-> TRUE, amounts |-> Amounts]
    /\ env = DefaultEnv
    /\ \E a \in PriorAmounts : \E old \in SUBSET {LeftoverReservation} :
          /\ store = PriorStore(a) \cup old
          /\ ledger = LedgerOf(PriorStore(a))
    /\ pc = [p \in Procs |-> "start"]
    /\ sub = [p \in Procs |-> DefaultUser]
    /\ events \in [Procs -> 0..MaxEvents]
    /\ admission = [p \in Procs |-> NoAdmission]
    /\ reservation_id = [p \in Procs |-> NoReservation]
    /\ tracker = [p \in Procs |-> NoTracker]
    /\ outcome = [p \in Procs |-> NoOutcome]
    /\ removes = [p \in Procs |-> 0]

\* An operator calls cleanup_expired_reservations for a user.
Sweep ==
    /\ scenario.serial => \A p \in Procs : pc[p] \notin AdmitPcs
    /\ \E ok \in CallOutcomes :
       \E failed \in IF scenario.faults
                     THEN SUBSET {it.period_id :
                                     it \in QueryBeginsWith(store, DefaultUser,
                                                            <<"reservation">>)}
                     ELSE {{}} :
          store' = cleanup_expired_reservations(store, DefaultUser, now, ok, failed).store
    /\ UNCHANGED <<now, scenario, env, ledger, pc, sub, events, admission,
                   reservation_id, tracker, outcome, removes>>

\* The handler's invocations, abandoned requests, the clock and the manual
\* cleanup; the TTL process deletes nothing during the run.
NextSweep ==
    \/ NextSerial
    \/ \E p \in Procs : Crash(p)
    \/ Tick
    \/ Sweep

SpecSweep == InitSweep /\ [][NextSweep]_vars

\* ------------------------------------------------- invocations that return
\* A step of invocation p.
HandlerStep(p) ==
    \/ Unauthorized(p)
    \/ CheckLimits(p)
    \/ ReserveCheckUsage(p)
    \/ ReserveCheckReserved(p)
    \/ PutReservation(p)
    \/ MessageInvalid(p)
    \/ HandlerAbort(p)
    \/ MessageCached(p)
    \/ MessageStreamUsage(p)
    \/ MessageStreamError(p)
    \/ \E i \in 1..Len(Meters) : UpdateMeter(p, i)
    \/ MessageFinally(p)
    \/ HandlerFinally(p)

InitReturn ==
    InitOf([horizon |-> StartTime, faults |-> TRUE, serial |-> FALSE,
            amounts |-> Amounts], MaxEvents)

\* Concurrent invocations on a store whose calls can fail; the Lambda runtime
\* lets every invocation run until it returns.
SpecReturn ==
    InitReturn /\ [][NextSerial]_vars /\ \A p \in Procs : WF_vars(HandlerStep(p))

\* ------------------------------------------------------ the model's stream
\* Largest number of events of one model stream.
MaxStream == 3

\* The events of a stream: a piece of text, a metadata event without usage,
\* and a metadata event with the usage (inputTokens, outputTokens).
StreamEvents ==
    {[kind |-> "contentBlockDelta", usage |-> <<0, 0>>],
     [kind |-> "metadata", usage |-> <<0, 0>>]}
        \cup {[kind |-> "metadata_usage", usage |-> a] : a \in scenario.amounts}

\* A tracker that takes the counts of every metadata event.
process_stream_eventEvery(trk, ev) ==
    IF ev.kind = "metadata_usage"
    THEN [tracker |-> [trk EXCEPT !.metadata_processed = TRUE,
                                  !.input_tokens = ev.usage[1],
                                  !.output_tokens = ev.usage[2]],
          is_metadata |-> TRUE]
    ELSE [tracker |-> trk, is_metadata |-> FALSE]

\* MessageTracker.process_stream_event (messages.py lines 48-74): the tracker
\* after the event and the value returned.
process_stream_event(trk, ev) ==
    IF ev.kind = "metadata_usage" /\ ~trk.metadata_processed
    THEN [tracker |-> [trk EXCEPT !.metadata_processed = TRUE,
                                  !.input_tokens = ev.usage[1],
                                  !.output_tokens = ev.usage[2]],
          is_metadata |-> TRUE]
    ELSE [tracker |-> trk, is_metadata |-> FALSE]

\* process_message without a cached response (lines 526-551): a new
\* MessageTracker, and converse_stream returns a stream of n events; the
\* tracker carries the number of events left and of usage events delivered.
StreamOpen(p) ==
    /\ pc[p] = "loop"
    /\ Turn(p)
    /\ events[p] > 0
    /\ events' = [events EXCEPT ![p] = @ - 1]
    /\ \E n \in 1..MaxStream :
          tracker' = [tracker EXCEPT ![p] =
                         [input_tokens |-> 0, output_tokens |-> 0,
                          metadata_processed |-> FALSE,
                          stream_left |-> n, usage_events |-> 0]]
    /\ pc' = [pc EXCEPT ![p] = "msg_finally"]
    /\ UNCHANGED <<now, scenario, env, store, ledger, sub, admission,
                   reservation_id, outcome, removes>>

\* One pass of the loop over the stream (lines 553-625): the tracker takes
\* the event; update_usage is called when it returns True; the event is
\* published.  Position "msg_finally" with events left is the head of the loop.
StreamNext(p) ==
    /\ pc[p] = "msg_finally"
    /\ Turn(p)
    /\ "stream_left" \in DOMAIN tracker[p]
    /\ tracker[p].stream_left > 0
    /\ \E ev \in StreamEvents :
          LET r == process_stream_event(tracker[p], ev)
          IN  /\ tracker' = [tracker EXCEPT ![p] =
                     [r.tracker EXCEPT
                         !.stream_left = @ - 1,
                         !.usage_events = @ + (IF ev.kind = "metadata_usage" THEN 1 ELSE 0)]]
              /\ pc' = [pc EXCEPT ![p] = IF r.is_metadata THEN "update_1"
                                         ELSE "msg_finally"]
    /\ UNCHANGED <<now, scenario, env, store, ledger, sub, events, admission,
                   reservation_id, outcome, removes>>

InitStream ==
    InitOf([horizon |-> StartTime, faults |-> FALSE, serial |-> TRUE,
            amounts |-> Amounts], MaxEvents)

\* The handler's invocations with streams of several events; a stream can
\* end (or raise) after any of its events.
NextStream ==
    \/ NextSerial
    \/ \E p \in Procs : StreamOpen(p)
    \/ \E p \in Procs : StreamNext(p)

SpecStream == InitStream /\ [][NextStream]_vars

\* ----------------------------------------------------------- two principals
\* The sub claims of the authorized events.
Users == {DefaultUser, "bob"}

\* Invocations of either principal, abandoned requests, the clock and the
\* cleanup issued for DefaultUser, who has used the service before.
InitPrincipals ==
    /\ now = StartTime
    /\ scenario = [horizon |-> StartTime + MaxTicks * MaxStep, faults |-> FALSE,
                   serial |-> TRUE, amounts |-> Amounts]
    /\ env = DefaultEnv
    /\ \E a \in PriorAmounts :
          /\ store = PriorStore(a)
          /\ ledger = LedgerOf(PriorStore(a))
    /\ pc = [p \in Procs |-> "start"]
    /\ sub \in [Procs -> Users]
    /\ events \in [Procs -> 0..MaxEvents]
    /\ admission = [p \in Procs |-> NoAdmission]
    /\ reservation_id = [p \in Procs |-> NoReservation]
    /\ tracker = [p \in Procs |-> NoTracker]
    /\ outcome = [p \in Procs |-> NoOutcome]
    /\ removes = [p \in Procs |-> 0]

SpecPrincipals == InitPrincipals /\ [][NextSweep]_vars

\* ------------------------------------------------------------- properties
\* What the table holds for DefaultUser, as a successful read reports it.
DailyUsage == _get_usage(Meters[1], store, DefaultUser, now, TRUE)
MonthlyUsage == _get_usage(Meters[2], store, DefaultUser, now, TRUE)
TotalReserved == get_total_reserved_tokens(store, DefaultUser, now, TRUE)
\* Every reservation item of DefaultUser, whatever its date and ttl.
AllReservations == QueryBeginsWith(store, DefaultUser, <<"reservation">>)

\* Invocation p's reservation item is in the table.
Holds(p) ==
    /\ reservation_id[p] # NoReservation
    /\ GetItem(store, sub[p], reservation_id[p]) # {}

\* The reservation check of p was reached, with the inputs it used.
Decided(p) == admission[p].reserved_read
ObservedSum(p) ==
    admission[p].usage_data.daily_output_tokens
        + admission[p].total_reserved_tokens + ReservationAmount

\* Invocation p went on to create its reservation: it is at the put_item, or
\* the item was put, or the put_item failed.
Proceeded(p) ==
    \/ pc[p] = "put"
    \/ reservation_id[p] # NoReservation
    \/ (pc[p] = "finally" /\ outcome[p] = ReservationFailed)

\* C1: for a principal for which no meter reports its limit exceeded, the
\* admission is denied with token type "output" and period "daily" exactly
\* when daily output usage + total reserved + reservation size is greater
\* than the daily output limit; otherwise the invocation goes on to create
\* the reservation (it is at the put_item, or past it).
C1_AdmissionRule ==
    \A p \in Procs :
        Decided(p) =>
            LET a == admission[p]
                over == ObservedSum(p) > env.DAILY_OUTPUT_LIMIT
            IN  /\ over <=> (a.is_exceeded /\ a.token_type = "output"
                                /\ a.period = "daily")
                /\ over => (pc[p] = "finally" /\ reservation_id[p] = NoReservation
                                /\ outcome[p] = ReservationFailed)
                /\ ~over => (~a.is_exceeded /\ Proceeded(p))

\* One invocation holds a reservation and the other, having counted it, is
\* denied for daily output.
C1_Witness ==
    \E p, q \in Procs :
        /\ p # q
        /\ Holds(p)
        /\ Decided(q)
        /\ admission[q].total_reserved_tokens = ReservationAmount
        /\ admission[q].is_exceeded
        /\ admission[q].token_type = "output"
        /\ admission[q].period = "daily"
        /\ pc[q] = "finally"

\* The case of C2: the limit is 20000, the reservation size 10000, and the
\* admission read usage 0 from a store that answered.
C2_Case(p) ==
    /\ Decided(p)
    /\ ~admission[p].read_failed
    /\ env.DAILY_OUTPUT_LIMIT = 20000
    /\ admission[p].new_reservation_amount = 10000
    /\ admission[p].usage_data.daily_output_tokens = 0

\* C2 as stated: with limit 20000, usage 0 and no reservations the first
\* admission succeeds, and a second one that sees the first reservation
\* (total reserved 10000, usage still 0) is denied.
C2_SecondDenied ==
    \A p \in Procs :
        C2_Case(p) =>
            /\ admission[p].total_reserved_tokens = 0 => ~admission[p].is_exceeded
            /\ admission[p].total_reserved_tokens = 10000 => admission[p].is_exceeded

\* C2 (amended): with limit 20000, usage 0 and no reservations the first
\* admission succeeds, and a second one that sees the first reservation
\* (total reserved 10000) succeeds too, 0 + 10000 + 10000 not being greater
\* than 20000; an admission is denied only when it sees more than 10000
\* reserved.
C2_SecondAdmitted ==
    \A p \in Procs :
        C2_Case(p) =>
            /\ admission[p].total_reserved_tokens <= 10000 =>
                  /\ ~admission[p].is_exceeded
                  /\ Proceeded(p)
            /\ admission[p].total_reserved_tokens > 10000 => admission[p].is_exceeded

\* Both invocations hold a reservation, the second admitted after it counted
\* the first one's 10000 tokens.
C2_Witness ==
    \E p, q \in Procs :
        /\ p # q
        /\ Holds(p)
        /\ Holds(q)
        /\ C2_Case(q)
        /\ admission[q].total_reserved_tokens = 10000
        /\ ~admission[q].is_exceeded

\* C3: when admissions run one at a time, every admitted request records no
\* more output tokens than one reservation, and no reservation expires or
\* becomes invisible before it is released, the recorded daily output usage
\* never exceeds the daily output limit.  (SpecSerial is these runs.)
C3_QuotaSafety == DailyUsage.output_tokens <= env.DAILY_OUTPUT_LIMIT

\* Invocation q's reservation check is taking place in this step.
ReservedReadStep(q) == pc[q] = "reserve_read" /\ pc'[q] # "reserve_read"

\* Another invocation's reservation is in the table and carries today's date.
VisibleOther(q) ==
    \E p \in Procs \ {q} :
        /\ Holds(p)
        /\ sub[p] = sub[q]
        /\ reservation_id[p][3] = DateStr(now)

\* Usage with which one more reservation fits under the limit and two do not.
RoomForOne(u) ==
    /\ u + ReservationAmount <= env.DAILY_OUTPUT_LIMIT
    /\ u + 2 * ReservationAmount > env.DAILY_OUTPUT_LIMIT

\* C4, the sequential half: when there is room for one reservation only, an
\* admission whose reads succeed and whose reservation read comes after
\* another invocation's reservation was written is denied.
C4_SequentialDenies ==
    [][\A q \in Procs :
          (/\ ReservedReadStep(q)
           /\ VisibleOther(q)
           /\ ~admission'[q].read_failed
           /\ RoomForOne(admission'[q].usage_data.daily_output_tokens))
          => (admission'[q].is_exceeded /\ pc'[q] = "finally")]_vars

\* C4, the concurrent half: with room for one reservation only, two
\* invocations both read before either wrote, and both hold a reservation.
C4_BothAdmitted ==
    \E p, q \in Procs :
        /\ p # q
        /\ sub[p] = sub[q]
        /\ Holds(p) /\ Holds(q)
        /\ Decided(p) /\ Decided(q)
        /\ ~admission[p].read_failed /\ ~admission[q].read_failed
        /\ RoomForOne(admission[p].usage_data.daily_output_tokens)
        /\ RoomForOne(admission[q].usage_data.daily_output_tokens)
        /\ admission[p].total_reserved_tokens = 0
        /\ admission[q].total_reserved_tokens = 0
        /\ RoomForOne(DailyUsage.output_tokens)

\* The invocations that have come out of their admission and have processed
\* no message yet.
Admitting == {p \in Procs : pc[p] \in {"loop", "finally"} /\ removes[p] = 0}
\* All admissions that began are over, and nothing was recorded since: the
\* other invocations have not started.
AdmitsFinished ==
    /\ Admitting # {}
    /\ \A p \in Procs \ Admitting : pc[p] = "start"

LedgerRange(i) ==
    IF Meters[i].name = "10min"
    THEN {e \in ledger : /\ e.user_id = DefaultUser
                         /\ e.period_id[1] = "10min"
                         /\ MinuteStamp(now - DaySeconds) <= e.period_id[2]
                         /\ e.period_id[2] <= MinuteStamp(now)}
    ELSE {e \in ledger : /\ e.user_id = DefaultUser
                         /\ e.period_id = <<"monthly", MonthIndex(now)>>}

LedgerSum(i) ==
    [input_tokens |-> SumField(LedgerRange(i), "input_tokens"),
     output_tokens |-> SumField(LedgerRange(i), "output_tokens")]

\* The counters of a table item, as a ledger entry.
Counters(it) ==
    [user_id |-> it.user_id, period_id |-> it.period_id,
     input_tokens |-> it.input_tokens, output_tokens |-> it.output_tokens]

\* C6: no update is lost: however the record calls of concurrent
\* invocations interleave, every bucket's counters are the sums of the
\* increments the store acknowledged, and a read of each meter reports the
\* sum over its buckets.
C6_NoLostUpdates ==
    /\ \A it \in store : it.period_id[1] # "reservation" => Counters(it) \in ledger
    /\ \A e \in ledger : \E it \in store : Counters(it) = e
    /\ DailyUsage = LedgerSum(1)
    /\ MonthlyUsage = LedgerSum(2)

\* Both invocations are inside update_usage at once, and the 10-minute bucket
\* holds what was there before plus both increments.
C6_Witness ==
    /\ \A p \in Procs : pc[p] = "update_2" /\ tracker[p].output_tokens > 0
    /\ \E a \in PriorAmounts :
          \E it \in GetItem(store, DefaultUser, IdFormat(Meters[1], RoundTime(Meters[1], now))) :
              /\ it.input_tokens = a[1] + tracker[1].input_tokens + tracker[2].input_tokens
              /\ it.output_tokens = a[2] + tracker[1].output_tokens + tracker[2].output_tokens

\* The reservations of DefaultUser that are live: created, not removed, and
\* their TTL not elapsed.
LiveReservations == {it \in AllReservations : now <= it.ttl}

\* C7: the total reserved for a principal is the sum of the sizes of the
\* principal's live reservations (created, not removed, TTL not elapsed).
C7_TotalReservedIsLive ==
    TotalReserved = SumField(LiveReservations, "output_tokens")

\* C8: a reservation whose TTL has elapsed counts as absent in every later
\* admission decision, even while its item is still in the table: the total
\* an admission reads includes no reservation whose TTL had elapsed.
C8_ExpiredNotCounted ==
    [][\A q \in Procs :
          ReservedReadStep(q) =>
              admission'[q].total_reserved_tokens
                  <= SumField({it \in QueryBeginsWith(store, sub[q],
                                         <<"reservation", "daily", DateStr(now)>>) :
                                  now <= it.ttl}, "output_tokens")]_vars

\* A store call of update_usage by p is acknowledged in this step.
RecordStep(p) ==
    /\ pc[p] \in {"update_1", "update_2"}
    /\ pc'[p] # pc[p]
    /\ store' # store

\* process_message's finally block of p runs in this step and p's
\* reservation is no longer in the table after it.
ReleaseStep(p) ==
    /\ pc[p] = "msg_finally"
    /\ pc'[p] # "msg_finally"
    /\ GetItem(store', sub[p], reservation_id[p]) = {}

\* C9: a commit releases capacity.  Each acknowledged update of a meter
\* raises what that meter reports by exactly the committed counts and leaves
\* the other meter alone; removing a reservation that the total counts
\* lowers the principal's total reserved by exactly the reservation size, so
\* that the next admission reads the new usage without the reservation.
C9_CommitReleases ==
    [][\A p \in Procs :
          /\ RecordStep(p) =>
                \A j \in 1..Len(Meters) :
                    LET before == _get_usage(Meters[j], store, sub[p], now, TRUE)
                        after == _get_usage(Meters[j], store', sub[p], now', TRUE)
                        mine == (pc[p] = "update_1") <=> (j = 1)
                    IN  /\ after.input_tokens = before.input_tokens
                              + (IF mine THEN tracker[p].input_tokens ELSE 0)
                        /\ after.output_tokens = before.output_tokens
                              + (IF mine THEN tracker[p].output_tokens ELSE 0)
          /\ (/\ ReleaseStep(p)
              /\ GetItem(store, sub[p], reservation_id[p])
                    \subseteq get_active_reservations(store, sub[p], now, TRUE)
              /\ GetItem(store, sub[p], reservation_id[p]) # {})
             => get_total_reserved_tokens(store', sub[p], now', TRUE)
                   = get_total_reserved_tokens(store, sub[p], now, TRUE)
                        - ReservationAmount]_vars

\* After the commit of one invocation: nothing was recorded before it, both
\* meters show its counts, its reservation is gone and the other
\* invocation's is the only one counted.
C9_Witness ==
    \E p, q \in Procs :
        /\ p # q
        /\ pc[p] = "finally"
        /\ removes[p] = 1
        /\ reservation_id[p] # NoReservation
        /\ ~Holds(p)
        /\ Holds(q)
        /\ TotalReserved = ReservationAmount
        /\ \E a \in Amounts :
              /\ DailyUsage = [input_tokens |-> a[1], output_tokens |-> a[2]]
              /\ MonthlyUsage = [input_tokens |-> a[1], output_tokens |-> a[2]]

\* C10: over one request that was admitted, remove_reservation is issued for
\* its reservation id exactly one time.
C10_RemoveOnce ==
    \A p \in Procs :
        (pc[p] = "done" /\ reservation_id[p] # NoReservation) => removes[p] = 1

\* The reservation of invocation p, if the reservation query returns it.
Counted(p) ==
    GetItem(store, sub[p], reservation_id[p])
        \cap get_active_reservations(store, sub[p], now, TRUE)

\* The reservation item of p is in the table with its TTL not elapsed, under
\* today's date.
Unexpired(p) ==
    \E it \in GetItem(store, sub[p], reservation_id[p]) :
        now <= it.ttl /\ it.period_id[3] = DateStr(now)

PutFailedStep(p) ==
    /\ pc[p] = "put"
    /\ pc'[p] # "put"
    /\ reservation_id'[p] = NoReservation

\* C12: when the store write of create_reservation fails, no reservation id
\* is returned, the table is left as it was with no reservation item of the
\* invocation in it, the failure does not reach the handler's exception
\* path, and the request is denied with error type "reservation_failed".
C12_FailClosedWrite ==
    [][\A p \in Procs :
          PutFailedStep(p) =>
              /\ store' = store
              /\ \A it \in AllReservations' : it.period_id[4] # p
              /\ pc'[p] = "finally"
              /\ outcome'[p].error_type = "reservation_failed"
              /\ tracker'[p] = NoTracker]_vars

\* An invocation the limits allowed was denied because its put_item failed.
C12_Witness ==
    \E p \in Procs :
        /\ pc[p] = "finally"
        /\ Decided(p)
        /\ ~admission[p].is_exceeded
        /\ admission[p].reserved_read
        /\ reservation_id[p] = NoReservation
        /\ outcome[p] = ReservationFailed
        /\ \A it \in AllReservations : it.period_id[4] # p

\* Which reads of the meters fail: every combination.
FailureFlags == [1..Len(Meters) -> BOOLEAN]
AllAnswered == [i \in 1..Len(Meters) |-> TRUE]

\* The table without the usage items of the meters whose read fails.
StoreWithout(oks) ==
    {it \in store :
        \A i \in 1..Len(Meters) : ~oks[i] => it.period_id[1] # Meters[i].prefix}

\* C13: a failed read is answered as "nothing there" and is not an error: a
\* meter whose read fails reports zero usage and is not exceeded, the total
\* of the reservations is 0 when the reservation query fails, the limiter
\* decides exactly as it would on a table without the usage of the failing
\* meters, and an admission that read no usage and no reservations is
\* admitted.
C13_FailOpenReads ==
    /\ \A oks \in FailureFlags :
          /\ \A i \in 1..Len(Meters) :
                ~oks[i] =>
                    LET usage == _get_usage(Meters[i], store, DefaultUser, now, oks[i])
                    IN  /\ usage = ZeroUsage
                        /\ ~MeterIsLimitExceeded(Meters[i], usage).is_exceeded
          /\ is_limit_exceeded(store, DefaultUser, now, oks)
                = is_limit_exceeded(StoreWithout(oks), DefaultUser, now, AllAnswered)
    /\ get_total_reserved_tokens(store, DefaultUser, now, FALSE) = 0
    /\ \A p \in Procs :
          (/\ Decided(p)
           /\ admission[p].read_failed
           /\ admission[p].usage_data = InitialTotalUsage
           /\ admission[p].total_reserved_tokens = 0)
              => /\ ~admission[p].is_exceeded
                 /\ Proceeded(p)
                 /\ outcome[p].error_type \in {"none", "reservation_failed"}

\* An invocation whose reads failed was admitted as on an empty table while
\* the usage in the table leaves no room for a reservation.
C13_Witness ==
    \E p \in Procs :
        /\ Holds(p)
        /\ admission[p].read_failed
        /\ admission[p].usage_data = InitialTotalUsage
        /\ admission[p].total_reserved_tokens = 0
        /\ DailyUsage.output_tokens + ReservationAmount > env.DAILY_OUTPUT_LIMIT
        /\ outcome[p] = NoOutcome

\* Usage values around the limits of a meter.
UsageGrid(cfg) ==
    {[input_tokens |-> i, output_tokens |-> o] :
        i \in {0, cfg.input_limit - 1, cfg.input_limit, cfg.input_limit + 1},
        o \in {0, cfg.output_limit - 1, cfg.output_limit, cfg.output_limit + 1}}

\* What the claim says a meter answers on a usage.
MeterVerdict(cfg, usage) ==
    IF usage.input_tokens >= cfg.input_limit THEN "input"
    ELSE IF usage.output_tokens >= cfg.output_limit THEN "output"
    ELSE "none"

\* The step in which the handler's first limit check of p answers.
CheckLimitsStep(p) == pc[p] = "start" /\ pc'[p] \in {"finally", "reserve"}

\* C14: a meter reports "input" when the input usage has reached the input
\* limit, whatever the output usage; otherwise "output" when the output
\* usage has reached the output limit; otherwise it is not exceeded.  The
\* handler's limit check answers with the daily meter's verdict on the usage
\* in the table, and with the monthly meter's when the daily is not exceeded.
C14_MeterVerdict ==
    [][/\ \A i \in 1..Len(Meters) : \A usage \in UsageGrid(Meters[i]) \cup {DailyUsage, MonthlyUsage} :
             LET r == MeterIsLimitExceeded(Meters[i], usage)
             IN  /\ usage.input_tokens >= Meters[i].input_limit
                      => r.is_exceeded /\ r.token_type = "input"
                 /\ (/\ usage.input_tokens < Meters[i].input_limit
                     /\ usage.output_tokens >= Meters[i].output_limit)
                      => r.is_exceeded /\ r.token_type = "output"
                 /\ (/\ usage.input_tokens < Meters[i].input_limit
                     /\ usage.output_tokens < Meters[i].output_limit)
                      => ~r.is_exceeded
                 /\ r.usage = usage
       /\ \A p \in Procs :
             CheckLimitsStep(p)
                 => LET daily == MeterVerdict(Meters[1], DailyUsage)
                        monthly == MeterVerdict(Meters[2], MonthlyUsage)
                    IN  IF daily # "none"
                        THEN outcome'[p] = [error_type |-> "token_limit_exceeded",
                                            tokenType |-> daily, period |-> "daily"]
                        ELSE IF monthly # "none"
                        THEN outcome'[p] = [error_type |-> "token_limit_exceeded",
                                            tokenType |-> monthly, period |-> "monthly"]
                        ELSE pc'[p] = "reserve" /\ outcome'[p] = NoOutcome]_vars

\* With both daily limits reached, an invocation was denied with token type
\* "input".
C14_Witness ==
    \E p \in Procs :
        /\ pc[p] = "finally"
        /\ outcome[p] = [error_type |-> "token_limit_exceeded",
                         tokenType |-> "input", period |-> "daily"]
        /\ DailyUsage.input_tokens >= Meters[1].input_limit
        /\ DailyUsage.output_tokens >= Meters[1].output_limit

\* The sub-buckets of an aggregating meter whose key lies between the key of
\* now - query_window and the key of now.
InWindow(cfg) ==
    {it \in store :
        /\ it.user_id = DefaultUser
        /\ it.period_id[1] = cfg.prefix
        /\ MinuteStamp(now - cfg.query_window) <= it.period_id[2]
        /\ it.period_id[2] <= MinuteStamp(now)}

\* The sub-buckets of the meter outside the window.
OutOfWindow(cfg) ==
    {it \in store : it.user_id = DefaultUser /\ it.period_id[1] = cfg.prefix}
        \ InWindow(cfg)

\* The step in which create_reservation of p reads the usage.
UsageReadStep(p) == pc[p] = "reserve" /\ pc'[p] # "reserve"

\* C15: the usage of a meter that aggregates 10-minute buckets over a day is
\* the sum, input and output separately, of exactly the buckets whose key
\* lies within [key of now - 24 h, key of now]; the buckets outside add
\* nothing (the usage is the same without them), and this is the usage an
\* admission decides on.
C15_WindowSum ==
    [][\A i \in 1..Len(Meters) :
          (Meters[i].aggregate /\ Meters[i].query_window # 0) =>
              LET cfg == Meters[i]
                  usage == _get_usage(cfg, store, DefaultUser, now, TRUE)
              IN  /\ usage.input_tokens = SumField(InWindow(cfg), "input_tokens")
                  /\ usage.output_tokens = SumField(InWindow(cfg), "output_tokens")
                  /\ usage = _get_usage(cfg, store \ OutOfWindow(cfg), DefaultUser, now, TRUE)
                  /\ \A p \in Procs :
                        (UsageReadStep(p) /\ cfg.name = "10min") =>
                            /\ admission'[p].usage_data.daily_input_tokens
                                  = SumField(InWindow(cfg), "input_tokens")
                            /\ admission'[p].usage_data.daily_output_tokens
                                  = SumField(InWindow(cfg), "output_tokens")]_vars

\* An admission decided on the sum of two or more buckets within the window
\* while the table holds a bucket older than the window.
C15_Witness ==
    \E p \in Procs :
        /\ Decided(p)
        /\ Cardinality(InWindow(Meters[1])) >= 2
        /\ \E it \in OutOfWindow(Meters[1]) : it.output_tokens > 0
        /\ admission[p].usage_data.daily_output_tokens
              = SumField(InWindow(Meters[1]), "output_tokens")
        /\ admission[p].usage_data.daily_output_tokens
              < SumField(QueryBeginsWith(store, DefaultUser, <<"10min">>), "output_tokens")

\* The reply of the handler's limit check when the daily output limit is
\* reached.
DailyOutputExceeded ==
    [error_type |-> "token_limit_exceeded", tokenType |-> "output", period |-> "daily"]

\* C16: with a daily output limit of 2000 (reservation size 1000), a monthly
\* output limit of 200000 and requests one after the other: an admission
\* that reads zero usage is admitted with a reservation of 1000; recording
\* (100, 900) on zero usage makes the daily usage (100, 900), recording
\* (50, 1100) on top makes it (150, 2000), and no reservation remains once a
\* message is done; an admission that reads 900 evaluates
\* 900 + 0 + 1000 = 1900 and is admitted; and a request arriving when the
\* daily output usage is 2000 is denied by the limit check with token type
\* "output", before any reservation check.
C16_Scenario ==
    [][/\ env.DAILY_OUTPUT_LIMIT = 2000 /\ env.MONTHLY_OUTPUT_LIMIT = 200000
       /\ ReservationAmount = 1000
       /\ \A p \in Procs :
             /\ (Decided(p) /\ admission[p].usage_data.daily_output_tokens = 0)
                   => /\ admission[p].total_reserved_tokens = 0
                      /\ admission[p].total_with_reservation = 1000
                      /\ ~admission[p].is_exceeded
                      /\ Proceeded(p)
             /\ Holds(p) => \A it \in GetItem(store, sub[p], reservation_id[p]) :
                               it.output_tokens = 1000
             /\ (/\ pc[p] = "update_1" /\ pc'[p] # "update_1"
                 /\ DailyUsage = ZeroUsage
                 /\ tracker[p] = [input_tokens |-> 100, output_tokens |-> 900,
                                  metadata_processed |-> TRUE])
                   => DailyUsage' = [input_tokens |-> 100, output_tokens |-> 900]
             /\ (/\ pc[p] = "update_1" /\ pc'[p] # "update_1"
                 /\ DailyUsage = [input_tokens |-> 100, output_tokens |-> 900]
                 /\ tracker[p] = [input_tokens |-> 50, output_tokens |-> 1100,
                                  metadata_processed |-> TRUE])
                   => DailyUsage' = [input_tokens |-> 150, output_tokens |-> 2000]
             /\ (pc[p] = "msg_finally" /\ pc'[p] # "msg_finally")
                   => /\ AllReservations' = {}
                      /\ DailyUsage' = DailyUsage
             /\ (Decided(p) /\ admission[p].usage_data.daily_output_tokens = 900)
                   => /\ admission[p].total_reserved_tokens = 0
                      /\ admission[p].total_with_reservation = 1900
                      /\ ~admission[p].is_exceeded
                      /\ Proceeded(p)
             /\ (/\ pc[p] = "start" /\ pc'[p] \notin {"start", "done"}
                 /\ DailyUsage.output_tokens = 2000)
                   => /\ pc'[p] = "finally"
                      /\ outcome'[p] = DailyOutputExceeded
                      /\ admission'[p] = NoAdmission
                      /\ reservation_id'[p] = NoReservation]_vars

\* The third request was denied with token type "output" after the first
\* two recorded (100, 900) and (50, 1100).
C16_Witness ==
    \E p \in Procs :
        /\ scenario.invocations = ScenarioInvocations - 3
        /\ pc[p] = "finally"
        /\ outcome[p] = DailyOutputExceeded
        /\ DailyUsage = [input_tokens |-> 150, output_tokens |-> 2000]
        /\ AllReservations = {}

\* Invocation p was denied by the reservation arithmetic: its usage and
\* reservation reads were answered and the sum was over the limit.
ArithmeticDenied(p) ==
    /\ pc[p] = "finally"
    /\ Decided(p)
    /\ admission[p].is_exceeded
    /\ admission[p].token_type = "output"
    /\ admission[p].period = "daily"

\* C17: a denial by the reservation arithmetic is reported with the kind
\* "output" (period "daily") and can be told from the denial the handler
\* reports when the store write of the reservation failed, whose kind is
\* "reservation_failed".
C17_DenialKinds ==
    \A p \in Procs :
        ArithmeticDenied(p) =>
            /\ outcome[p].tokenType = "output"
            /\ outcome[p].period = "daily"
            /\ outcome[p].error_type # "reservation_failed"
            /\ outcome[p] # ReservationFailed

\* Reservation ids of today and of the day before, those of the invocations
\* and one that no invocation ever created.
CandidateIds ==
    {ReservationId(t, uuid) : t \in {now, now - DaySeconds}, uuid \in Procs \cup {0}}

\* The step in which invocation p calls remove_reservation.
RemoveCall(p) == removes'[p] = removes[p] + 1

\* C18: removing a reservation id that is not in the table (never created,
\* already removed, or deleted after its expiry) returns success and leaves
\* the table unchanged, and removing an id twice leaves the table as
\* removing it once does; so a handler's repeated remove of an id that is no
\* longer there changes nothing.
C18_RemoveIdempotent ==
    [][/\ \A rid \in CandidateIds :
             LET once == remove_reservation(store, DefaultUser, rid, TRUE)
             IN  /\ GetItem(store, DefaultUser, rid) = {} => once = store
                 /\ remove_reservation_result(store, DefaultUser, rid, TRUE)
                 /\ remove_reservation(once, DefaultUser, rid, TRUE) = once
                 /\ remove_reservation_result(once, DefaultUser, rid, TRUE)
       /\ \A p \in Procs :
             (RemoveCall(p) /\ ~Holds(p)) =>
                 /\ reservation_id[p] \in CandidateIds
                 /\ store' = store]_vars

\* An invocation has called remove_reservation twice for its id; the store
\* answered both calls, so that the second found no item.
C18_Witness ==
    \E p \in Procs :
        /\ ~scenario.faults
        /\ removes[p] = 2
        /\ reservation_id[p] # NoReservation
        /\ ~Holds(p)
        /\ pc[p] = "done"

\* The daily policy: the meter of the 10-minute buckets.
DailyPolicy == CHOOSE cfg \in {Meters[i] : i \in 1..Len(Meters)} : cfg.description = "daily"

\* C19: every reservation in the table is charged half of the daily policy's
\* output_limit, the admission evaluates usage + reserved + that size and
\* denies exactly when the sum is greater than the daily policy's
\* output_limit, and that limit is the value at which the daily meter reports
\* the output limit exceeded.
C19_ReservationSize ==
    /\ \A it \in AllReservations :
          /\ it.output_tokens = DailyPolicy.output_limit \div 2
          /\ 2 * it.output_tokens = DailyPolicy.output_limit
          /\ it.input_tokens = 0
    /\ \A p \in Procs :
          Decided(p) =>
              /\ admission[p].new_reservation_amount = DailyPolicy.output_limit \div 2
              /\ admission[p].total_with_reservation
                    = admission[p].usage_data.daily_output_tokens
                        + admission[p].total_reserved_tokens
                        + DailyPolicy.output_limit \div 2
              /\ admission[p].is_exceeded
                    <=> admission[p].total_with_reservation > DailyPolicy.output_limit
    /\ MeterIsLimitExceeded(DailyPolicy,
           [input_tokens |-> 0, output_tokens |-> DailyPolicy.output_limit]).is_exceeded
    /\ ~MeterIsLimitExceeded(DailyPolicy,
           [input_tokens |-> 0, output_tokens |-> DailyPolicy.output_limit - 1]).is_exceeded

\* An admitted invocation holds a reservation of half the daily output limit
\* (the monthly limit being another value).
C19_Witness ==
    \E p \in Procs :
        /\ Holds(p)
        /\ Decided(p)
        /\ DailyPolicy.output_limit # Meters[2].output_limit
        /\ \E it \in GetItem(store, sub[p], reservation_id[p]) :
              2 * it.output_tokens = DailyPolicy.output_limit

\* The usage buckets in a table.
Buckets(st) == {it \in st : it.period_id[1] # "reservation"}

\* C20: while a usage bucket is in the table, no step of the program or of
\* its environment lowers its input_tokens or its output_tokens.
C20_MonotonicUsage ==
    [][\A it \in Buckets(store) : \A jt \in Buckets(store') :
          (jt.user_id = it.user_id /\ jt.period_id = it.period_id) =>
              /\ jt.input_tokens >= it.input_tokens
              /\ jt.output_tokens >= it.output_tokens]_vars

\* A bucket that held usage of earlier requests has been added to.
C20_Witness ==
    \E it \in Buckets(store) : \E a \in PriorAmounts : \E b \in Amounts :
        /\ a[2] > 0
        /\ it.input_tokens = a[1] + b[1]
        /\ it.output_tokens = a[2] + b[2]

\* C21: get_meter_limits reports, for every configured meter name, both the
\* input limit and the output limit of that meter.
C21_LimitsBoth ==
    /\ DOMAIN get_meter_limits = {Meters[i].name : i \in 1..Len(Meters)}
    /\ \A i \in 1..Len(Meters) :
          LET r == get_meter_limits[Meters[i].name]
          IN  /\ DOMAIN r = {"input_limit", "output_limit"}
              /\ r.input_limit = Meters[i].input_limit
              /\ r.output_limit = Meters[i].output_limit

\* The keys the claim names: name, period_key, window_start, ttl,
\* input_limit, output_limit, key_prefix.
ClaimedKeys ==
    {"name", "id_format", "round_time", "ttl_delta", "input_limit",
     "output_limit", "prefix"}

\* C22: constructing a meter from a period configuration that lacks any of
\* name, id_format, round_time, ttl_delta, input_limit, output_limit or
\* prefix (the key is absent) raises the configuration error, and no meter
\* comes of it: no invocation of that environment gets to check a limit,
\* reserve or record.
C22_FailFast ==
    /\ \A keys \in SUBSET PolicyKeys :
          ~(ClaimedKeys \subseteq keys) => TokenMeterInit(keys) = "ValueError"
    /\ TokenMeterInit(PolicyKeys) = "meter"
    /\ ~(ClaimedKeys \subseteq scenario.period_config) =>
          /\ \A p \in Procs : pc[p] \in {"import", "import_failed"}
          /\ admission = [p \in Procs |-> NoAdmission]
          /\ AllReservations = {}
          /\ ledger = LedgerOf(store)

\* The load of the module failed on a configuration without its prefix.
C22_Witness ==
    \E p \in Procs :
        /\ pc[p] = "import_failed"
        /\ "prefix" \notin scenario.period_config
        /\ scenario.period_config = PolicyKeys \ {"prefix"}

\* C23: the expiry of a usage bucket is fixed by its first write: no later
\* step changes the ttl (or the creation timestamp) of a bucket that is in
\* the table.
C23_ExpiryFixed ==
    [][\A it \in Buckets(store) : \A jt \in Buckets(store') :
          (jt.user_id = it.user_id /\ jt.period_id = it.period_id) =>
              /\ jt.ttl = it.ttl
              /\ jt.timestamp = it.timestamp]_vars

\* The step in which update_usage of p on one meter fails: the position
\* moves on and the table stays as it was.
RecordFailedStep(p) ==
    /\ pc[p] \in {"update_1", "update_2"}
    /\ pc'[p] # pc[p]
    /\ store' = store

\* C24: when the usage record of a message fails on one meter or on all, the
\* message still ends in process_message's finally block, which removes the
\* reservation and touches no bucket: a message that is over, its record
\* failed or not, has left no reservation of its invocation in the table.
C24_CommitAlwaysReleases ==
    [][\A p \in Procs :
          /\ RecordFailedStep(p) =>
                /\ pc'[p] \in {"update_2", "msg_finally"}
                /\ reservation_id'[p] = reservation_id[p]
                /\ removes'[p] = removes[p]
          /\ (pc[p] = "msg_finally" /\ pc'[p] # "msg_finally") =>
                /\ removes'[p] = removes[p] + 1
                /\ GetItem(store', sub[p], reservation_id[p]) = {}
                /\ Buckets(store') = Buckets(store)
          /\ (pc[p] \in {"finally", "done"} /\ removes[p] >= 1) => ~Holds(p)]_vars

\* The only invocation that ran recorded its usage on one meter and failed on
\* the other, and its reservation is gone.
C24_Witness ==
    \E p \in Procs :
        /\ \A q \in Procs \ {p} : pc[q] = "start"
        /\ pc[p] \in {"finally", "done"}
        /\ removes[p] >= 1
        /\ reservation_id[p] # NoReservation
        /\ ~Holds(p)
        /\ AllReservations = {}
        /\ DailyUsage # MonthlyUsage

\* The stream of p's message has reported its token counts and the daily
\* meter has not recorded them yet.
Unrecorded(p) == pc[p] = "update_1" /\ tracker[p].metadata_processed

\* C25: the usage is recorded before the reservation is removed, so that an
\* admitted invocation's consumption is always visible to a concurrent
\* admission: while its counts are not yet recorded, its reservation is
\* among those the reservation query returns.
C25_NoGap ==
    \A p \in Procs : Unrecorded(p) => Counted(p) # {}

\* The cycle of p was rejected: the limit check or create_reservation denied.
Rejected(p) ==
    /\ pc[p] \in {"finally", "done"}
    /\ outcome[p].error_type \in {"token_limit_exceeded", "reservation_failed"}

\* The cycle of p has reached a terminal state: rejected, or a message was
\* committed or aborted (its remove was issued), or the handler returned.
Terminal(p) == Rejected(p) \/ removes[p] >= 1 \/ pc[p] = "done"

\* A step taken by invocation p.
StepOf(p) ==
    \/ pc'[p] # pc[p]
    \/ events'[p] # events[p]
    \/ removes'[p] # removes[p]

\* C26: a cycle goes from checking to rejected or reserved, from reserved
\* through processing to committed or aborted, and these three are terminal:
\* a rejected cycle has no reservation, issues no remove, processes no
\* message and records nothing, and a cycle in a terminal state processes
\* nothing further and changes the table no more.
C26_StateMachine ==
    [][\A p \in Procs :
          /\ Rejected(p) =>
                /\ reservation_id[p] = NoReservation
                /\ removes[p] = 0
                /\ tracker[p] = NoTracker
                /\ \A it \in AllReservations : it.period_id[4] # p
          /\ (Terminal(p) /\ StepOf(p)) =>
                /\ store' = store
                /\ ledger' = ledger
                /\ pc'[p] \in {"finally", "done"}]_vars

\* A step of an admitted invocation p outside a commit: its stream has
\* reported no token counts.
AbortStep(p) ==
    /\ StepOf(p)
    /\ reservation_id[p] # NoReservation
    /\ ~tracker[p].metadata_processed
    /\ ~tracker'[p].metadata_processed

\* C27: an abort records nothing: the steps of an admitted invocation whose
\* message ends without usage metadata (cached response, invalid payload,
\* model error, the handler's finally) leave every usage bucket of every
\* meter as it was and take nothing from the table but the invocation's own
\* reservation.
C27_AbortRecordsNothing ==
    [][\A p \in Procs :
          AbortStep(p) =>
              /\ Buckets(store') = Buckets(store)
              /\ ledger' = ledger
              /\ store' \in {store, DeleteItem(store, sub[p], reservation_id[p])}
              /\ RemoveCall(p) => GetItem(store', sub[p], reservation_id[p]) = {}]_vars

\* An admitted invocation is over, its reservation removed, and the buckets
\* hold exactly the usage of the earlier requests.
C27_Witness ==
    \E p \in Procs : \E a \in PriorAmounts :
        /\ ~scenario.faults
        /\ a[2] > 0
        /\ Buckets(store) = PriorStore(a)
        /\ pc[p] = "done"
        /\ removes[p] >= 1
        /\ reservation_id[p] # NoReservation
        /\ AllReservations = {}

\* The first meter in list order whose verdict on the table's usage is
\* exceeded; 0 if there is none.
FirstExceeded ==
    LET idx == {i \in 1..Len(Meters) :
                   MeterIsLimitExceeded(Meters[i],
                       _get_usage(Meters[i], store, DefaultUser, now, TRUE)).is_exceeded}
    IN  IF idx = {} THEN 0 ELSE CHOOSE i \in idx : \A j \in idx : i <= j

\* The table without the buckets of the meters after meter i.
StoreUpTo(i) ==
    {it \in store : \A j \in (i + 1)..Len(Meters) : it.period_id[1] # Meters[j].prefix}

\* C28: the limiter goes through its meters in list order and stops at the
\* first that reports exceeded, answering with that meter's kind and
\* description; the meters after it are not read (the answer is the same
\* whether their reads succeed or fail and whatever their buckets hold); when
\* no meter is exceeded the answer is not exceeded, without kind or period.
C28_ShortCircuit ==
    LET r == is_limit_exceeded(store, DefaultUser, now, AllAnswered)
        k == FirstExceeded
    IN  /\ k = 0 => ~r.is_exceeded /\ r.token_type = "none" /\ r.period = "none"
        /\ k # 0 =>
              /\ r.is_exceeded
              /\ r.token_type = MeterVerdict(Meters[k],
                                    _get_usage(Meters[k], store, DefaultUser, now, TRUE))
              /\ r.period = Meters[k].description
              /\ \A oks \in FailureFlags :
                    (\A i \in 1..k : oks[i]) =>
                        is_limit_exceeded(store, DefaultUser, now, oks) = r
              /\ is_limit_exceeded(StoreUpTo(k), DefaultUser, now, AllAnswered) = r
        /\ \A p \in Procs :
              (pc[p] = "finally" /\ outcome[p].error_type = "token_limit_exceeded") =>
                  /\ k # 0
                  /\ outcome[p].tokenType = r.token_type
                  /\ outcome[p].period = r.period

\* The handler denied with the daily meter's kind and period while the monthly
\* meter, later in the list, is exceeded as well, on the other kind of token.
C28_Witness ==
    \E p \in Procs :
        /\ pc[p] = "finally"
        /\ outcome[p] = [error_type |-> "token_limit_exceeded",
                         tokenType |-> "output", period |-> "daily"]
        /\ FirstExceeded = 1
        /\ MeterIsLimitExceeded(Meters[2], MonthlyUsage).is_exceeded
        /\ MeterVerdict(Meters[2], MonthlyUsage) = "input"

\* The handler denied with the monthly meter's kind and period: the daily
\* meter, first in the list, is not exceeded.
MonthlyDenied ==
    \E p \in Procs :
        /\ pc[p] = "finally"
        /\ outcome[p] = [error_type |-> "token_limit_exceeded",
                         tokenType |-> "input", period |-> "monthly"]
        /\ FirstExceeded = 2

\* C29: the usage the limiter returns merges the usage of every configured
\* meter, whether the answer is exceeded or not: the generic input and output
\* totals are the maxima over all meters, the daily fields are the usage of
\* the short-window meter and the monthly fields that of the monthly meter.
C29_ConsolidatedUsage ==
    is_limit_exceeded(store, DefaultUser, now, AllAnswered).usage_data =
        [input_tokens |-> Max(DailyUsage.input_tokens, MonthlyUsage.input_tokens),
         output_tokens |-> Max(DailyUsage.output_tokens, MonthlyUsage.output_tokens),
         daily_input_tokens |-> DailyUsage.input_tokens,
         daily_output_tokens |-> DailyUsage.output_tokens,
         monthly_input_tokens |-> MonthlyUsage.input_tokens,
         monthly_output_tokens |-> MonthlyUsage.output_tokens]

\* The same statement for the answers that are not exceeded.
ConsolidatedWhenAdmitted ==
    LET r == is_limit_exceeded(store, DefaultUser, now, AllAnswered)
    IN  ~r.is_exceeded => C29_ConsolidatedUsage

\* The bucket of meter k at time t in table st, as the counts it holds.
BucketCounts(st, uid, k, t) ==
    LET found == GetItem(st, uid, IdFormat(Meters[k], RoundTime(Meters[k], t)))
    IN  IF found = {} THEN <<0, 0>>
        ELSE LET it == CHOOSE x \in found : TRUE
             IN  <<it.input_tokens, it.output_tokens>>

\* Which meters a step of the record loop at meter k may ask to succeed.
OnlyMeter(k, ok) == [j \in 1..Len(Meters) |-> j = k /\ ok]

\* C30: the limiter's record calls the record of every meter, also after one
\* has failed; it returns true exactly when all of them succeeded; after a
\* partial failure the bucket of each meter that succeeded holds its
\* increment (nothing is rolled back) and the bucket of each meter that
\* failed is as it was.
C30_RecordAll ==
    [][\A p \in Procs :
          LET i == tracker[p].input_tokens
              o == tracker[p].output_tokens
          IN  /\ pc[p] = "update_1" =>
                    \A oks \in FailureFlags :
                        LET r == update_usage(store, sub[p], now, i, o, oks)
                        IN  /\ r.success <=> (\A k \in 1..Len(Meters) : oks[k])
                            /\ \A k \in 1..Len(Meters) :
                                  LET old == BucketCounts(store, sub[p], k, now)
                                      new == BucketCounts(r.store, sub[p], k, now)
                                  IN  IF oks[k]
                                      THEN new = <<old[1] + i, old[2] + o>>
                                      ELSE new = old
              /\ \A k \in 1..Len(Meters) :
                    (pc[p] = (IF k = 1 THEN "update_1" ELSE "update_2") /\ pc'[p] # pc[p]) =>
                        /\ pc'[p] = IF k < Len(Meters) THEN "update_2" ELSE "msg_finally"
                        /\ \E ok \in BOOLEAN :
                              store' = update_usage(store, sub[p], now, i, o,
                                                    OnlyMeter(k, ok)).store
                        /\ \A j \in 1..Len(Meters) \ {k} :
                              BucketCounts(store', sub[p], j, now) =
                                  BucketCounts(store, sub[p], j, now)]_vars

\* The record of the only invocation that ran failed on the daily meter and
\* went on to the monthly meter, which holds the increment.
C30_Witness ==
    \E p \in Procs :
        /\ \A q \in Procs \ {p} : pc[q] = "start"
        /\ pc[p] = "msg_finally"
        /\ tracker[p].output_tokens > 0
        /\ BucketCounts(store, sub[p], 2, now)[2] =
              BucketCounts(store, sub[p], 1, now)[2] + tracker[p].output_tokens

\* The user's reservations whose ttl has passed.
ExpiredReservations == {it \in AllReservations : it.ttl < now}

\* A step that changes the table and is no step of an invocation nor of the
\* clock: in a run without the TTL process, a step of the cleanup.
SweepStep ==
    /\ store' # store
    /\ now' = now
    /\ \A p \in Procs : ~StepOf(p)

\* C31: cleanup_expired_reservations deletes exactly the user's reservation
\* items, of any date, whose ttl has passed, and returns the number it
\* deleted; it deletes no reservation whose ttl has not passed and no usage
\* bucket.
C31_SweepExpired ==
    /\ [](LET r == cleanup_expired_reservations(store, DefaultUser, now, TRUE, {})
          IN  /\ r.store = store \ ExpiredReservations
              /\ r.cleaned_count = Cardinality(ExpiredReservations)
              /\ Buckets(r.store) = Buckets(store)
              /\ \A it \in AllReservations : it.ttl >= now => it \in r.store)
    /\ [][SweepStep =>
             /\ store' = store \ ExpiredReservations
             /\ ExpiredReservations' = {}
             /\ Buckets(store') = Buckets(store)]_vars

\* The cleanup has run: the reservation of an abandoned invocation is gone,
\* the reservation of another invocation, whose ttl has not passed, and the
\* usage buckets are in the table, and no expired reservation is left.
C31_Witness ==
    \E p, q \in Procs :
        /\ pc[p] = "crashed"
        /\ GetItem(store, sub[p], reservation_id[p]) = {}
        /\ reservation_id[q] # NoReservation
        /\ \E it \in GetItem(store, sub[q], reservation_id[q]) : it.ttl >= now
        /\ ExpiredReservations = {}
        /\ Buckets(store) # {}

\* Admitted invocation p has not finished its messages: an entry of
\* event["events"] is left, or the usage of one is being recorded.
Processing(p) ==
    /\ reservation_id[p] # NoReservation
    /\ \/ pc[p] = "loop" /\ events[p] > 0
       \/ pc[p] \in {"update_1", "update_2"}

\* C32: from its admission until the handler has processed every message of
\* the invocation, the recording of each message's usage included, the
\* invocation's reservation item is in the table, unless its ttl has passed
\* (no reservation is created before StartTime, so none has expired at
\* StartTime + ReservationTtlSeconds).
C32_HeldThroughout ==
    \A p \in Procs :
        (Processing(p) /\ now <= StartTime + ReservationTtlSeconds) => Holds(p)

\* C33: an admitted invocation that is not ended from outside, whatever the
\* path it takes (completion, cached response, invalid payload, model error,
\* unexpected exception), issues a remove for its reservation and returns;
\* and the remove of the handler's finally block either leaves the
\* reservation absent or, its delete having failed, the table as it was.
C33_NoLeak ==
    /\ \A p \in Procs :
          (reservation_id[p] # NoReservation) ~> (pc[p] = "done" /\ removes[p] >= 1)
    /\ [][\A p \in Procs :
             (pc[p] = "finally" /\ pc'[p] = "done" /\ reservation_id[p] # NoReservation) =>
                 /\ removes'[p] = removes[p] + 1
                 /\ \/ GetItem(store', sub[p], reservation_id[p]) = {}
                    \/ store' = store]_vars

\* An invocation whose only message did not validate has returned; its
\* remove, the one of the handler's finally block, was issued and its
\* reservation is not in the table.
C33_Witness ==
    \E p \in Procs :
        /\ pc[p] = "done"
        /\ reservation_id[p] # NoReservation
        /\ removes[p] = 1
        /\ tracker[p] = NoTracker
        /\ ~Holds(p)

\* Items under keys the system generates, next to those of the run: the
\* buckets of a record two days before (the 10-minute one past its ttl) and
\* of a record now, an hourly bucket, and reservations of the current day and
\* of the day before.
GeneratedItems ==
    RecordAll({}, DefaultUser, now - 2 * DaySeconds, 7, 11)
        \cup RecordAll({}, DefaultUser, now, 7, 11)
        \cup {[user_id |-> DefaultUser, period_id |-> <<"hourly", now \div 3600>>,
               input_tokens |-> 7, output_tokens |-> 11,
               timestamp |-> now, ttl |-> now + DaySeconds]}
        \cup {ReservationItem(DefaultUser, now, 0),
              ReservationItem(DefaultUser, now - DaySeconds, 0)}

\* The table with the items of x put under the keys it does not hold yet.
WithItems(x) ==
    store \cup {it \in x : GetItem(store, it.user_id, it.period_id) = {}}

\* The reservation items of a table.
ReservationsOf(st) == st \ Buckets(st)

\* C34: in the shared table no meter counts a reservation item as usage,
\* neither the range query nor the direct lookup, and no usage bucket is
\* counted by the sum of the reservations or deleted by a remove or by the
\* cleanup, for the keys the system generates.
C34_Namespaces ==
    \A x \in SUBSET GeneratedItems :
        LET st == WithItems(x)
        IN  /\ \A k \in 1..Len(Meters) :
                  _get_usage(Meters[k], st, DefaultUser, now, TRUE) =
                      _get_usage(Meters[k], Buckets(st), DefaultUser, now, TRUE)
            /\ get_total_reserved_tokens(st, DefaultUser, now, TRUE) =
                  get_total_reserved_tokens(ReservationsOf(st), DefaultUser, now, TRUE)
            /\ get_total_reserved_tokens(Buckets(st), DefaultUser, now, TRUE) = 0
            /\ \A rid \in {it.period_id : it \in ReservationsOf(st)} :
                  Buckets(remove_reservation(st, DefaultUser, rid, TRUE)) = Buckets(st)
            /\ Buckets(cleanup_expired_reservations(st, DefaultUser, now, TRUE, {}).store)
                  = Buckets(st)

\* The table holds usage buckets, the reservation of a running invocation
\* and a reservation of the day before: the meters report the buckets'
\* counts and the reserved sum is the one reservation of the current day.
C34_Witness ==
    \E p \in Procs :
        /\ Holds(p)
        /\ pc[p] = "update_2"
        /\ LeftoverReservation \in store
        /\ DailyUsage.output_tokens > 0
        /\ DailyUsage = _sum_period_usage(Buckets(store) \ GetItem(store, DefaultUser,
                                               IdFormat(Meters[2], now)))
        /\ TotalReserved = ReservationAmount

\* The meter of policy cfg counts bucket it in the usage it reads at time t.
CountedAt(cfg, it, t) ==
    /\ it.period_id[1] = cfg.prefix
    /\ _get_usage(cfg, {it}, it.user_id, t, TRUE) =
          [input_tokens |-> it.input_tokens, output_tokens |-> it.output_tokens]

\* The first moment at which the TTL process may delete item it.
FirstExpired(it) == it.ttl + 1

\* C35: no usage bucket can be deleted by the TTL process while its meter
\* still counts it: at the first moment after its ttl a 10-minute bucket has
\* left the meter's 24-hour window and a monthly bucket its month.
C35_TtlCoversWindow ==
    \A it \in Buckets(store) : \A k \in 1..Len(Meters) :
        (it.input_tokens + it.output_tokens > 0) =>
            ~CountedAt(Meters[k], it, FirstExpired(it))

\* The same statement for the monthly buckets alone.
MonthlyTtlCoversMonth ==
    \A it \in Buckets(store) :
        (it.input_tokens + it.output_tokens > 0) =>
            ~CountedAt(Meters[2], it, FirstExpired(it))

\* The same statement for the 10-minute buckets last written a minute or more
\* after the start of their bucket.
TenMinuteTtlCoversWindow ==
    \A it \in Buckets(store) :
        (it.input_tokens + it.output_tokens > 0
            /\ it.period_id[1] = "10min"
            /\ it.ttl >= it.period_id[2] * 60 + 60 + DaySeconds) =>
            ~CountedAt(Meters[1], it, FirstExpired(it))

\* Times at which a record and a read are compared: now, the first and the
\* last second of now's 10-minute bucket, and the last second of January and
\* the first of February.
ProbeTimes ==
    {now, RoundTime(Meters[1], now), RoundTime(Meters[1], now) + 599,
     MonthStartDay(2) * DaySeconds - 1, MonthStartDay(2) * DaySeconds}

\* u plus the counts (i, o).
UsagePlus(u, i, o) ==
    [input_tokens |-> u.input_tokens + i, output_tokens |-> u.output_tokens + o]

\* C36: the bucket a meter's record writes at time t is one the meter's usage
\* reads at the same time t (the key of the direct lookup for the monthly
\* meter, a key inside the queried range for the 10-minute meter): the usage
\* read right after a successful record is the usage before plus the
\* recorded counts, on every meter.
C36_ReadYourWrites ==
    /\ [](\A k \in 1..Len(Meters) : \A t \in ProbeTimes : \A a \in Amounts :
             LET cfg == Meters[k]
                 st == MeterUpdateUsage(cfg, store, DefaultUser, t, a[1], a[2])
                 key == IdFormat(cfg, RoundTime(cfg, t))
             IN  /\ _get_usage(cfg, st, DefaultUser, t, TRUE) =
                       UsagePlus(_get_usage(cfg, store, DefaultUser, t, TRUE), a[1], a[2])
                 /\ _get_usage(cfg, GetItem(st, DefaultUser, key), DefaultUser, t, TRUE) =
                       _sum_period_usage(GetItem(st, DefaultUser, key)))
    /\ [][\A p \in Procs : \A k \in 1..Len(Meters) :
             (pc[p] = (IF k = 1 THEN "update_1" ELSE "update_2")
                 /\ pc'[p] # pc[p] /\ store' # store) =>
                 _get_usage(Meters[k], store', sub[p], now', TRUE) =
                     UsagePlus(_get_usage(Meters[k], store, sub[p], now, TRUE),
                               tracker[p].input_tokens, tracker[p].output_tokens)]_vars

\* Both meters have recorded the counts of the only invocation that ran, and
\* both report them on top of the earlier usage.
C36_Witness ==
    \E p \in Procs : \E a \in PriorAmounts :
        /\ \A q \in Procs \ {p} : pc[q] = "start"
        /\ pc[p] = "msg_finally"
        /\ tracker[p].output_tokens > 0
        /\ DailyUsage = UsagePlus([input_tokens |-> a[1], output_tokens |-> a[2]],
                                  tracker[p].input_tokens, tracker[p].output_tokens)
        /\ MonthlyUsage = DailyUsage

\* The trackers a message can have: fresh, or holding the counts of a usage
\* event.
Trackers ==
    {NoTracker} \cup {[input_tokens |-> a[1], output_tokens |-> a[2],
                       metadata_processed |-> TRUE] : a \in Amounts}

\* C37: the usage of a message is recorded at most once, however many
\* metadata events its stream delivers: the tracker reports the first usage
\* event only, a tracker that has reported keeps its counts and reports no
\* further event, and the handler, once the counts of a message are taken,
\* does not come back to the record of that message.
C37_RecordedOnce ==
    /\ [](\A trk \in Trackers : \A ev \in StreamEvents :
             LET r == process_stream_event(trk, ev)
             IN  /\ r.is_metadata <=>
                       (ev.kind = "metadata_usage" /\ ~trk.metadata_processed)
                 /\ trk.metadata_processed => r.tracker = trk)
    /\ [][\A p \in Procs :
             /\ (pc'[p] = "update_1" /\ pc[p] # "update_1") =>
                   /\ ~tracker[p].metadata_processed
                   /\ tracker'[p].metadata_processed
             /\ (tracker[p].metadata_processed /\ tracker'[p] # NoTracker) =>
                   /\ tracker'[p].input_tokens = tracker[p].input_tokens
                   /\ tracker'[p].output_tokens = tracker[p].output_tokens
                   /\ tracker'[p].metadata_processed
             /\ (pc[p] = "msg_finally" /\ tracker[p].metadata_processed
                    /\ pc'[p] = "msg_finally" /\ tracker'[p] # tracker[p]) =>
                   /\ store' = store
                   /\ ledger' = ledger]_vars

\* The stream of the only invocation that ran delivered two usage events and
\* the meters hold the message's counts once.
C37_Witness ==
    \E p \in Procs : \E a \in PriorAmounts :
        /\ \A q \in Procs \ {p} : pc[q] = "start"
        /\ pc[p] = "msg_finally"
        /\ "usage_events" \in DOMAIN tracker[p]
        /\ tracker[p].usage_events >= 2
        /\ tracker[p].output_tokens > 0
        /\ DailyUsage = UsagePlus([input_tokens |-> a[1], output_tokens |-> a[2]],
                                  tracker[p].input_tokens, tracker[p].output_tokens)
        /\ MonthlyUsage = DailyUsage

\* The items of principal u in the table, and those of the others.
ItemsOf(st, u) == {it \in st : it.user_id = u}
ItemsOfOthers(st, u) == {it \in st : it.user_id # u}

\* C38: the operations issued for a principal neither read nor change the
\* buckets and reservations of another principal: the limit check and the
\* reserved sum of u are those computed on u's items alone, a step of an
\* invocation of u (admission, record, remove) and the cleanup for u leave
\* the items of every other principal as they were, and the admission of u
\* decides on what u's items hold.
C38_Isolation ==
    /\ [](\A u \in Users :
             /\ is_limit_exceeded(store, u, now, AllAnswered) =
                   is_limit_exceeded(ItemsOf(store, u), u, now, AllAnswered)
             /\ get_active_reservations(store, u, now, TRUE) =
                   get_active_reservations(ItemsOf(store, u), u, now, TRUE)
             /\ ItemsOfOthers(cleanup_expired_reservations(store, u, now, TRUE, {}).store, u)
                   = ItemsOfOthers(store, u))
    /\ [][/\ \A p \in Procs :
                StepOf(p) =>
                    /\ ItemsOfOthers(store', sub[p]) = ItemsOfOthers(store, sub[p])
                    /\ (pc[p] = "start" /\ pc'[p] # "done") =>
                          (pc'[p] = "finally") =
                              is_limit_exceeded(ItemsOf(store, sub[p]), sub[p], now,
                                                AllAnswered).is_exceeded
                    /\ pc[p] = "reserve" =>
                          admission'[p].usage_data =
                              is_limit_exceeded(ItemsOf(store, sub[p]), sub[p], now,
                                                AllAnswered).usage_data
                    /\ pc[p] = "reserve_read" =>
                          admission'[p].total_reserved_tokens =
                              get_total_reserved_tokens(ItemsOf(store, sub[p]), sub[p],
                                                        now, TRUE)
          /\ SweepStep => ItemsOfOthers(store', DefaultUser) = ItemsOfOthers(store, DefaultUser)]_vars

\* One principal is denied, its usage and an outstanding reservation of its
\* own filling the daily limit, while an invocation of the other principal
\* has been admitted and holds its reservation.
C38_Witness ==
    \E p, q \in Procs :
        /\ sub[p] # sub[q]
        /\ pc[p] = "finally"
        /\ outcome[p] = ReservationFailed
        /\ ItemsOf(store, sub[p]) # {}
        /\ Holds(q)
        /\ pc[q] \in {"loop", "update_1", "update_2", "msg_finally"}

====
